---- MODULE Spec2Model ----
(***************************************************************************)
(* Model of CppProperties (c_cpp_properties.json configuration store) of   *)
(* vscode-cpptools: load / migrate / default-merge pipeline, selection     *)
(* index, change notifications and compile_commands watchers.              *)
(*                                                                         *)
(* Representation                                                          *)
(*   - JS `undefined` / `null` scalars are the strings Undefined / Null.   *)
(*   - Optional lists and objects are wrapped: None = <<>>, Some(x) =      *)
(*     <<x>>  (an absent `includePath` is None, `[]` is Some(<<>>)).       *)
(*   - The handlers are synchronous JavaScript; each is one action.  The   *)
(*     code of a handler is written as operators over a machine record m   *)
(*     (all fields of the object plus the disk), threaded in program order.*)
(***************************************************************************)
EXTENDS Integers, Sequences, FiniteSets, TLC

VARIABLES
    platform,                   \* process.platform
    propertiesFile,             \* "undefined" | "null" | "uri"
    configurationJson,          \* None | Some(document)
    currentConfigurationIndex,  \* PersistentFolderState<number>
    configurationIncomplete,
    compilerDefaults,           \* None until the CompilerDefaults setter ran
    vcpkgPathReady,
    vcpkgIncludes,
    compileCommandFileWatchers, \* sequence of watched paths (open handles)
    settings,                   \* CppSettings snapshot (C_Cpp.default.*)
    file,                       \* content of c_cpp_properties.json on disk
    fileWritable,               \* FALSE: writes to the file fail (read-only)
    mtimeNewer,                 \* stats.mtime > configFileWatcherFallbackTime
    pendingEvents,              \* file-watcher / editor events not yet delivered
    tracked,                    \* the file is one of vscode.workspace.textDocuments
    pendingEdits,               \* edit commands suspended in ensurePropertiesFile
    settingsPanel,              \* None | Some(selectedConfigIndex) of the settings UI
    loads,                      \* history: parsePropertiesFile calls of the last action
    fired,                      \* history: notifications emitted by the last action
    writes,                     \* history: writeToJson calls of the edits of the last action
    ensured,                    \* history: commands that waited in ensurePropertiesFile
    call,                       \* history: the observed call made by the last action
    diagnosticCollection,       \* the diagnostics set for the properties document
    prevSquiggleMetrics,        \* configuration name -> counters of its last pass
    pendingSquiggles,           \* openTextDocument promises not yet resolved
    document,                   \* text of the properties document in the editor
    pathsOnDisk,                \* what fs finds at each path of interest
    squigglePass,               \* history: the diagnostics pass run by the last action
    watchLimit,                 \* handles that fs.watch grants before it throws
    openWatches,                \* paths of the handles of fs.watch that are not closed
    watchUpdated                \* history: the last action updated the watchers

vars == << platform, propertiesFile, configurationJson, currentConfigurationIndex,
           configurationIncomplete, compilerDefaults, vcpkgPathReady, vcpkgIncludes,
           compileCommandFileWatchers, settings, file, fileWritable, mtimeNewer,
           pendingEvents, tracked, pendingEdits, settingsPanel, loads, fired,
           writes, ensured, call, diagnosticCollection, prevSquiggleMetrics,
           pendingSquiggles, document, pathsOnDisk, squigglePass, watchLimit,
           openWatches, watchUpdated >>

----------------------------------------------------------------------------
\* Bounds of the model

MaxConfigs == 2       \* longest configuration list written by the environment
MaxPendingEdits == 2  \* edit commands that may be suspended at the same time
MaxPendingEvents == 1 \* file events the watcher holds; further ones are dropped
MaxPathEntries == 2   \* longest includePath an "add to include path" is issued on
MaxPendingPasses == 2 \* diagnostics passes waiting for the document; more coalesce

----------------------------------------------------------------------------
\* Values

configVersion == 4

Undefined == "<undefined>"
Null == "<null>"
False == "<false>"
DefaultSentinel == "${default}"
None == << >>
Some(x) == << x >>
IsSome(o) == o # None
Val(o) == o[1]

Truthy(s) == s \notin {Undefined, Null, ""}

RECURSIVE SeqToSet(_)
SeqToSet(s) == IF s = << >> THEN {} ELSE {Head(s)} \cup SeqToSet(Tail(s))

\* smallest element of a non-empty set of integers
Min(S) == CHOOSE x \in S : \A y \in S : x <= y

RECURSIVE Flatten(_)
Flatten(ss) == IF ss = << >> THEN << >> ELSE Head(ss) \o Flatten(Tail(ss))

RECURSIVE Dedup(_)
Dedup(s) ==
    IF s = << >> THEN << >>
    ELSE LET r == Dedup(SubSeq(s, 1, Len(s) - 1))
             x == s[Len(s)]
         IN IF x \in SeqToSet(r) THEN r ELSE Append(r, x)

EmptyBrowse == [ path |-> None, limitSymbolsToIncludedHeaders |-> Undefined,
                 databaseFilename |-> Undefined ]

\* { name: n } with every other property absent
NamedConfig(n) ==
    [ name |-> n, compilerPath |-> Undefined, knownCompilers |-> None,
      cStandard |-> Undefined, cppStandard |-> Undefined, includePath |-> None,
      macFrameworkPath |-> None, windowsSdkVersion |-> Undefined, defines |-> None,
      intelliSenseMode |-> Undefined, compileCommands |-> Undefined,
      forcedInclude |-> None, configurationProvider |-> Undefined, browse |-> None ]

PlatformName ==
    IF platform = "darwin" THEN "Mac"
    ELSE IF platform = "win32" THEN "Win32"
    ELSE "Linux"

getDefaultConfig == NamedConfig(PlatformName)

getDefaultCppProperties ==
    [ configurations |-> << getDefaultConfig >>, env |-> None,
      version |-> Some(configVersion), enableConfigurationSquiggles |-> Undefined ]

ReservedEnvNames == { "workspaceRoot", "workspaceFolder", "workspaceFolderBasename", "default" }

----------------------------------------------------------------------------
\* Disk content of c_cpp_properties.json

FileMissing == [ kind |-> "missing", value |-> None ]
FileEmpty == [ kind |-> "empty", value |-> None ]          \* ""
FileMalformed == [ kind |-> "malformed", value |-> None ]  \* JSON.parse throws
FileNoConfigs == [ kind |-> "noConfigurations", value |-> None ] \* e.g. {} or null

\* JSON.stringify(document, null, 4): properties holding undefined are left out,
\* which is what absent (Undefined / None) already means in a document value.
JSONstringify(doc) == [ kind |-> "json", value |-> Some(doc) ]

fsExistsSync(f) == f.kind # "missing"

----------------------------------------------------------------------------
\* External collaborators (code of the repository outside src/)

\* getCustomConfigProviders().checkId(id): the id of the registered provider
\* that `id` names, else `id` itself.  One provider, "ms.prov", is registered
\* and also answers to its display name "Prov".
checkId(id) == IF id = "Prov" THEN "ms.prov" ELSE id

\* getABTestSettings().UseRecursiveIncludes
UseRecursiveIncludes == TRUE

\* util.resolveVariables(input, env): a falsy input gives ""; a placeholder
\* ${name} whose name is a key of env is replaced by env[name]; any other
\* text is returned as it is.
utilResolveVariables(input, env) ==
    IF ~Truthy(input) THEN ""
    ELSE IF \E k \in DOMAIN env : input = "${" \o k \o "}"
         THEN env[CHOOSE k \in DOMAIN env : input = "${" \o k \o "}"]
         ELSE input

\* String.prototype.split(";").filter(e => e) on the path strings of the model:
\* the strings that hold a ";" are listed, any other string is one fragment
SplitSemicolon(s) ==
    IF s = "" \/ s = ";" THEN << >>
    ELSE IF s = "x;y" THEN << "x", "y" >>
    ELSE IF s = "v;w" THEN << "v", "w" >>
    ELSE IF s = "a;;b" THEN << "a", "b" >>
    ELSE << s >>

----------------------------------------------------------------------------
\* The machine record: the fields of the CppProperties object and the disk

M == [ propertiesFile |-> propertiesFile,
       configurationJson |-> configurationJson,
       currentConfigurationIndex |-> currentConfigurationIndex,
       configurationIncomplete |-> configurationIncomplete,
       compilerDefaults |-> compilerDefaults,
       vcpkgPathReady |-> vcpkgPathReady,
       vcpkgIncludes |-> vcpkgIncludes,
       compileCommandFileWatchers |-> compileCommandFileWatchers,
       settings |-> settings,
       file |-> file,
       fileWritable |-> fileWritable,
       mtimeNewer |-> mtimeNewer,
       pendingEvents |-> pendingEvents,
       tracked |-> tracked,
       pendingEdits |-> pendingEdits,
       settingsPanel |-> settingsPanel,
       diagnosticCollection |-> diagnosticCollection,
       pendingSquiggles |-> pendingSquiggles,
       squiggleCalls |-> 0,     \* handleSquiggles calls of the running handler
       threw |-> FALSE,         \* an exception left the last call uncaught
       ret |-> "none",          \* return value of the last parsePropertiesFile
       steps |-> << >>,         \* updateToVersionN calls of the running handler
       dirty |-> FALSE,         \* the local `dirty` of the last parsePropertiesFile
       idChanged |-> FALSE,     \* a provider id was normalized by the last load
       messages |-> {},         \* messages shown by the last load
       writeAttempts |-> 0,     \* writeToJson calls of the running handler
       loads |-> << >>,
       fired |-> << >>,
       writes |-> << >>,
       call |-> None,           \* the observed call of the running handler
       ensured |-> ensured,
       watchLimit |-> watchLimit,
       openWatches |-> openWatches,
       watchUpdated |-> FALSE ]

Configurations(m) == Val(m.configurationJson).configurations

\* the private default* fields, null until the CompilerDefaults setter ran
defaultCompilerPath(m) ==
    IF m.compilerDefaults = None THEN Null ELSE Val(m.compilerDefaults).compilerPath
defaultCStandard(m) ==
    IF m.compilerDefaults = None THEN Null ELSE Val(m.compilerDefaults).cStandard
defaultCppStandard(m) ==
    IF m.compilerDefaults = None THEN Null ELSE Val(m.compilerDefaults).cppStandard
defaultIntelliSenseMode(m) ==
    IF m.compilerDefaults = None THEN Null ELSE Val(m.compilerDefaults).intelliSenseMode
defaultWindowsSdkVersion(m) ==
    IF m.compilerDefaults = None THEN Null ELSE Val(m.compilerDefaults).windowsSdkVersion
defaultIncludes(m) ==
    IF m.compilerDefaults = None THEN None ELSE Some(Val(m.compilerDefaults).includes)
defaultFrameworks(m) ==
    IF m.compilerDefaults = None THEN None ELSE Some(Val(m.compilerDefaults).frameworks)
knownCompilers(m) ==
    IF m.compilerDefaults = None THEN None ELSE Some(Val(m.compilerDefaults).knownCompilers)

IndexInRange(idx, configs) == idx >= 0 /\ idx < Len(configs)

\* this.Configurations[i] for a 0-based JavaScript index i
At(configs, i) == configs[i + 1]

----------------------------------------------------------------------------
\* Small steps shared by the handlers

\* the vscode watcher on c_cpp_properties.json exists once the setter ran
WatcherRegistered(m) == m.compilerDefaults # None

WatcherEvents == { "create", "change", "delete" }

\* the events `evs` reach the listeners registered by the setter: the file
\* watcher holds MaxPendingEvents events and drops what it has no room for;
\* a change of the open document is reported by the editor
Raise(m, evs) ==
    IF WatcherRegistered(m)
    THEN [ m EXCEPT !.pendingEvents =
             @ \cup (evs \ WatcherEvents)
               \cup (IF Cardinality((@ \cup evs) \cap WatcherEvents) <= MaxPendingEvents
                     THEN evs \cap WatcherEvents ELSE {}) ]
    ELSE m

\* a write of `content` to the file on disk, and the events it raises
DiskWrite(m, content) ==
    Raise([ m EXCEPT !.file = content, !.mtimeNewer = TRUE ],
          { IF fsExistsSync(m.file) THEN "change" ELSE "create" }
          \cup (IF m.tracked THEN { "textChange" } ELSE {}))

writeToJson(m) ==
    IF m.propertiesFile # "uri" \/ ~m.fileWritable
    THEN [ m EXCEPT !.threw = TRUE, !.writeAttempts = @ + 1 ]
    ELSE DiskWrite([ m EXCEPT !.writeAttempts = @ + 1 ], JSONstringify(Val(m.configurationJson)))

\* handleSquiggles(): the synchronous part; the pass itself runs later
handleSquiggles(m) ==
    IF m.propertiesFile # "uri" THEN m
    ELSE IF m.configurationJson = None THEN [ m EXCEPT !.threw = TRUE ]
    ELSE IF Val(m.configurationJson).enableConfigurationSquiggles = False
    THEN [ m EXCEPT !.squiggleCalls = @ + 1, !.diagnosticCollection = << >> ]
    ELSE IF m.settings.defaultEnableConfigurationSquiggles = False
    THEN [ m EXCEPT !.squiggleCalls = @ + 1, !.diagnosticCollection = << >> ]
    ELSE [ m EXCEPT !.squiggleCalls = @ + 1,
                    !.pendingSquiggles = IF @ < MaxPendingPasses THEN @ + 1 ELSE @ ]

getConfigIndexForPlatform(m, config) ==
    LET n == Len(Configurations(m))
        hits == { i \in 0..(n - 1) : At(config.configurations, i).name = PlatformName }
    IN IF hits # {} THEN Min(hits) ELSE n - 1

getIntelliSenseModeForPlatform(name) ==
    IF name = "Linux" THEN "gcc-x64"
    ELSE IF name = "Mac" THEN "clang-x64"
    ELSE IF name = "Win32" THEN "msvc-x64"
    ELSE IF platform = "win32" THEN "msvc-x64"
    ELSE IF platform = "darwin" THEN "clang-x64"
    ELSE "gcc-x64"

resetToDefaultSettings(m, resetIndex) ==
    [ m EXCEPT !.configurationJson = Some(getDefaultCppProperties),
               !.currentConfigurationIndex =
                   IF resetIndex \/ ~IndexInRange(@, getDefaultCppProperties.configurations)
                   THEN getConfigIndexForPlatform(
                            [ m EXCEPT !.configurationJson = Some(getDefaultCppProperties) ],
                            getDefaultCppProperties)
                   ELSE @,
               !.configurationIncomplete = TRUE ]

----------------------------------------------------------------------------
\* Schema migration

SetConfigurations(m, cs) ==
    [ m EXCEPT !.configurationJson = Some([ Val(@) EXCEPT !.configurations = cs ]) ]

SetVersion(m, v) ==
    [ m EXCEPT !.configurationJson = Some([ Val(@) EXCEPT !.version = Some(v) ]) ]

\* the call of updateToVersion<n> is noted in the machine record
Step(m, n) == [ m EXCEPT !.steps = Append(@, n) ]

updateToVersion2(m) == SetVersion(Step(m, 2), 2)

\* variant of updateToVersion3: the frameworks are assigned to a list that is set
updateToVersion3Always(m) ==
    LET fix(config) ==
            [ config EXCEPT !.macFrameworkPath =
                IF config.name = "Mac"
                   \/ (platform = "darwin" /\ config.name # "Win32" /\ config.name # "Linux")
                THEN Some(<< "/System/Library/Frameworks", "/Library/Frameworks" >>)
                ELSE @ ]
    IN SetConfigurations(SetVersion(Step(m, 3), 3),
                         [ i \in 1..Len(Configurations(m)) |-> fix(Configurations(m)[i]) ])

updateToVersion3(m) ==
    LET fix(config) ==
            [ config EXCEPT !.macFrameworkPath =
                IF (config.name = "Mac"
                    \/ (platform = "darwin" /\ config.name # "Win32" /\ config.name # "Linux"))
                   /\ @ = None
                THEN Some(<< "/System/Library/Frameworks", "/Library/Frameworks" >>)
                ELSE @ ]
    IN SetConfigurations(SetVersion(Step(m, 3), 3),
                         [ i \in 1..Len(Configurations(m)) |-> fix(Configurations(m)[i]) ])

\* variant of updateToVersion4: compilerPath is assigned beside compileCommands
updateToVersion4BesideCommands(m) ==
    LET fix(config) ==
            [ config EXCEPT
                !.intelliSenseMode =
                    IF @ = Undefined /\ ~Truthy(m.settings.defaultIntelliSenseMode)
                    THEN getIntelliSenseModeForPlatform(config.name) ELSE @,
                !.compilerPath =
                    IF @ = Undefined /\ Truthy(defaultCompilerPath(m))
                       /\ ~Truthy(m.settings.defaultCompilerPath)
                    THEN defaultCompilerPath(m) ELSE @,
                !.cStandard =
                    IF ~Truthy(@) /\ Truthy(defaultCStandard(m)) /\ ~Truthy(m.settings.defaultCStandard)
                    THEN defaultCStandard(m) ELSE @,
                !.cppStandard =
                    IF ~Truthy(@) /\ Truthy(defaultCppStandard(m))
                       /\ ~Truthy(m.settings.defaultCppStandard)
                    THEN defaultCppStandard(m) ELSE @ ]
    IN SetConfigurations(SetVersion(Step(m, 4), 4),
                         [ i \in 1..Len(Configurations(m)) |-> fix(Configurations(m)[i]) ])

updateToVersion4(m) ==
    LET fix(config) ==
            [ config EXCEPT
                !.intelliSenseMode =
                    IF @ = Undefined /\ ~Truthy(m.settings.defaultIntelliSenseMode)
                    THEN getIntelliSenseModeForPlatform(config.name) ELSE @,
                !.compilerPath =
                    IF @ = Undefined /\ Truthy(defaultCompilerPath(m))
                       /\ ~Truthy(config.compileCommands) /\ ~Truthy(m.settings.defaultCompilerPath)
                    THEN defaultCompilerPath(m) ELSE @,
                !.cStandard =
                    IF ~Truthy(@) /\ Truthy(defaultCStandard(m)) /\ ~Truthy(m.settings.defaultCStandard)
                    THEN defaultCStandard(m) ELSE @,
                !.cppStandard =
                    IF ~Truthy(@) /\ Truthy(defaultCppStandard(m))
                       /\ ~Truthy(m.settings.defaultCppStandard)
                    THEN defaultCppStandard(m) ELSE @ ]
    IN SetConfigurations(SetVersion(Step(m, 4), 4),
                         [ i \in 1..Len(Configurations(m)) |-> fix(Configurations(m)[i]) ])

Version(m) == Val(m.configurationJson).version

\* lines 835-851: the version steps parsePropertiesFile runs, in program order
MigrateAfterV2(m) == IF Version(m) = Some(2) THEN updateToVersion3(m) ELSE m

MigrateFromAbsent(m) == IF Version(m) = None THEN updateToVersion2(m) ELSE m

\* variant of MigrateLast: without the else branch of line 847
MigrateLastKnown(m) ==
    IF Version(m) = Some(3) THEN updateToVersion4(m) ELSE m

MigrateLast(m) ==
    IF Version(m) = Some(3) THEN updateToVersion4(m)
    ELSE [ SetVersion(m, configVersion) EXCEPT !.messages = @ \cup { "unknownVersion" } ]

\* variant of MigrateVersion: a version that is not current, absent or 2 runs
\* the last step
MigrateVersionLastStepAlways(m) ==
    IF Version(m) # Some(configVersion)
    THEN updateToVersion4(MigrateAfterV2(MigrateFromAbsent([ m EXCEPT !.dirty = TRUE ])))
    ELSE m

\* variant of MigrateVersion: the three tests form an else-if chain
MigrateVersionOneStep(m) ==
    IF Version(m) = Some(configVersion) THEN m
    ELSE IF Version(m) = None THEN updateToVersion2([ m EXCEPT !.dirty = TRUE ])
    ELSE IF Version(m) = Some(2) THEN updateToVersion3([ m EXCEPT !.dirty = TRUE ])
    ELSE MigrateLast([ m EXCEPT !.dirty = TRUE ])

MigrateVersion(m) ==
    IF Version(m) # Some(configVersion)
    THEN MigrateLast(MigrateAfterV2(MigrateFromAbsent([ m EXCEPT !.dirty = TRUE ])))
    ELSE m

----------------------------------------------------------------------------
\* parsePropertiesFile

\* what one call of parsePropertiesFile did (history only)
LoadRecord(before, after, outcome) ==
    [ outcome |-> outcome,   \* "ok" "empty" "readError" "malformed" "noConfigurations"
      text |-> before.file,  \* the content of the file that was read
      \* the document, the index and the incomplete flag are as before the call
      kept |-> /\ after.configurationJson = before.configurationJson
               /\ after.currentConfigurationIndex = before.currentConfigurationIndex
               /\ after.configurationIncomplete = before.configurationIncomplete,
      \* a complete document with a valid index was held before the call
      complete |-> /\ ~before.configurationIncomplete
                   /\ IsSome(before.configurationJson)
                   /\ IndexInRange(before.currentConfigurationIndex,
                                   Val(before.configurationJson).configurations),
      beforeIndex |-> before.currentConfigurationIndex,
      beforeName |-> IF IsSome(before.configurationJson)
                        /\ IndexInRange(before.currentConfigurationIndex,
                                        Val(before.configurationJson).configurations)
                     THEN At(Val(before.configurationJson).configurations,
                             before.currentConfigurationIndex).name
                     ELSE Undefined,
      names |-> IF IsSome(after.configurationJson)
                THEN [ i \in 1..Len(Val(after.configurationJson).configurations) |->
                         Val(after.configurationJson).configurations[i].name ]
                ELSE << >>,
      afterIndex |-> after.currentConfigurationIndex,
      \* version and env keys of the text that was read
      inVersion |-> IF before.file.kind = "json" THEN Val(before.file.value).version ELSE None,
      version |-> IF IsSome(after.configurationJson)
                  THEN Val(after.configurationJson).version ELSE None,
      envKeys |-> IF IsSome(after.configurationJson) /\ IsSome(Val(after.configurationJson).env)
                  THEN DOMAIN Val(Val(after.configurationJson).env) ELSE {},
      \* the updateToVersionN calls of this load, in order
      steps |-> SubSeq(after.steps, Len(before.steps) + 1, Len(after.steps)),
      inEnvKeys |-> IF before.file.kind = "json" /\ IsSome(Val(before.file.value).env)
                    THEN DOMAIN Val(Val(before.file.value).env) ELSE {},
      \* some configuration's compileCommands differs from the one held before
      ccChanged |-> /\ IsSome(before.configurationJson) /\ IsSome(after.configurationJson)
                    /\ \E k \in 1..Min({ Len(Val(before.configurationJson).configurations),
                                          Len(Val(after.configurationJson).configurations) }) :
                           Val(before.configurationJson).configurations[k].compileCommands
                           # Val(after.configurationJson).configurations[k].compileCommands,
      dirty |-> after.dirty,
      idChanged |-> after.idChanged,
      wrote |-> after.file # before.file,
      \* the writeToJson calls of this load, and whether the file now holds
      \* the text of the held document
      writeAttempts |-> after.writeAttempts - before.writeAttempts,
      fileHoldsDocument |-> /\ IsSome(after.configurationJson)
                            /\ after.file = JSONstringify(Val(after.configurationJson)),
      threw |-> after.threw,
      \* the held configurations after the call
      configurations |-> IF IsSome(after.configurationJson)
                         THEN Val(after.configurationJson).configurations ELSE << >>,
      messages |-> after.messages,
      squiggles |-> after.squiggleCalls > before.squiggleCalls ]

Logged(before, after, outcome) ==
    [ after EXCEPT !.loads = Append(@, LoadRecord(before, after, outcome)) ]

\* variant of SelectByName: the loop has no `break`, the last match wins
SelectByNameNoBreak(m, newJson) ==
    IF ~m.configurationIncomplete /\ IsSome(m.configurationJson)
       /\ IndexInRange(m.currentConfigurationIndex, Configurations(m))
    THEN LET name == At(Configurations(m), m.currentConfigurationIndex).name
             hits == { i \in 0..(Len(newJson.configurations) - 1) :
                           At(newJson.configurations, i).name = name }
         IN IF hits # {}
            THEN [ m EXCEPT !.currentConfigurationIndex =
                       CHOOSE x \in hits : \A y \in hits : y <= x ]
            ELSE m
    ELSE m

\* variant of SelectByName: without a match the platform-preferred
\* configuration of the new list is selected
SelectByNameElsePreferred(m, newJson) ==
    IF ~m.configurationIncomplete /\ IsSome(m.configurationJson)
       /\ IndexInRange(m.currentConfigurationIndex, Configurations(m))
    THEN LET name == At(Configurations(m), m.currentConfigurationIndex).name
             hits == { i \in 0..(Len(newJson.configurations) - 1) :
                           At(newJson.configurations, i).name = name }
         IN [ m EXCEPT !.currentConfigurationIndex =
                IF hits # {} THEN Min(hits)
                ELSE getConfigIndexForPlatform(
                         [ m EXCEPT !.configurationJson = Some(newJson) ], newJson) ]
    ELSE m

\* lines 800-808: keep the configuration that was selected, by name
SelectByName(m, newJson) ==
    IF ~m.configurationIncomplete /\ IsSome(m.configurationJson)
       /\ IndexInRange(m.currentConfigurationIndex, Configurations(m))
    THEN LET name == At(Configurations(m), m.currentConfigurationIndex).name
             hits == { i \in 0..(Len(newJson.configurations) - 1) :
                           At(newJson.configurations, i).name = name }
         IN IF hits # {}
            THEN [ m EXCEPT !.currentConfigurationIndex = Min(hits) ]
            ELSE m
    ELSE m

\* variant of AssignAndClamp: the document is assigned, the index is not checked
AssignOnly(m, newJson) ==
    [ m EXCEPT !.configurationJson = Some(newJson) ]

\* lines 809-812
AssignAndClamp(m, newJson) ==
    [ m EXCEPT !.configurationJson = Some(newJson),
               !.currentConfigurationIndex =
                   IF ~IndexInRange(@, newJson.configurations)
                   THEN getConfigIndexForPlatform(
                            [ m EXCEPT !.configurationJson = Some(newJson) ], newJson)
                   ELSE @ ]

\* variant of NormalizeProviderIds: a document that names a provider is dirty
NormalizeProviderIdsOfAny(m) ==
    [ SetConfigurations(m, [ i \in 1..Len(Configurations(m)) |->
          [ Configurations(m)[i] EXCEPT !.configurationProvider = checkId(@) ] ])
      EXCEPT !.idChanged = \E i \in 1..Len(Configurations(m)) :
                               checkId(Configurations(m)[i].configurationProvider)
                               # Configurations(m)[i].configurationProvider,
             !.dirty = \E i \in 1..Len(Configurations(m)) :
                           Configurations(m)[i].configurationProvider # Undefined ]

\* lines 814-821
NormalizeProviderIds(m) ==
    [ SetConfigurations(m, [ i \in 1..Len(Configurations(m)) |->
          [ Configurations(m)[i] EXCEPT !.configurationProvider = checkId(@) ] ])
      EXCEPT !.idChanged = \E i \in 1..Len(Configurations(m)) :
                               checkId(Configurations(m)[i].configurationProvider)
                               # Configurations(m)[i].configurationProvider,
             !.dirty = \E i \in 1..Len(Configurations(m)) :
                           checkId(Configurations(m)[i].configurationProvider)
                           # Configurations(m)[i].configurationProvider ]

\* variant of StripReservedEnv: `default` is not deleted
StripWorkspaceNames(m) ==
    IF IsSome(Val(m.configurationJson).env)
    THEN [ m EXCEPT !.configurationJson =
             Some([ Val(@) EXCEPT !.env =
                 Some([ k \in (DOMAIN Val(@)) \ (ReservedEnvNames \ { "default" })
                          |-> Val(@)[k] ]) ]) ]
    ELSE m

\* lines 823-829
StripReservedEnv(m) ==
    IF IsSome(Val(m.configurationJson).env)
    THEN [ m EXCEPT !.configurationJson =
             Some([ Val(@) EXCEPT !.env =
                 Some([ k \in (DOMAIN Val(@)) \ ReservedEnvNames |-> Val(@)[k] ]) ]) ]
    ELSE m

\* variant of CatchWriteError: the error of writeToJson is not caught
CatchNothing(m, w) == w

\* the catch of lines 856-860: w is the machine after writeToJson
CatchWriteError(m, w) ==
    IF w.threw
    THEN [ m EXCEPT !.ret = "false", !.messages = @ \cup { "writeFailed" },
                    !.writeAttempts = w.writeAttempts ]
    ELSE w

\* variant of WriteBack: every load writes the document back
WriteBackAlways(m) == CatchWriteError(m, writeToJson(m))

\* lines 853-861: the write-back of a corrected document
WriteBack(m) ==
    IF m.dirty THEN CatchWriteError(m, writeToJson(m)) ELSE m

\* variant of FailedLoad: a failed load falls back to the default document
FailedLoadResets(m, outcome) ==
    Logged(m, [ resetToDefaultSettings(m, TRUE)
                EXCEPT !.ret = IF outcome = "empty" THEN "undefined" ELSE "false" ],
           outcome)

\* the early return of line 792 and the catch block of lines 863-866
FailedLoad(m, outcome) ==
    Logged(m, [ m EXCEPT !.ret = IF outcome = "empty" THEN "undefined" ELSE "false" ], outcome)

\* lines 796-812: the new document replaces the held one
AssignDocument(m, newJson) ==
    AssignAndClamp(SelectByName(m, newJson), newJson)

\* line 833
MarkComplete(m) == [ m EXCEPT !.configurationIncomplete = FALSE ]

\* lines 868-870
SquigglesOnSuccess(m) == IF m.ret = "true" THEN handleSquiggles(m) ELSE m

parsePropertiesFile(m) ==
    IF m.propertiesFile # "uri"
    THEN \* this.propertiesFile.fsPath raises, and again in the catch block's message
         [ m EXCEPT !.threw = TRUE, !.ret = "throw" ]
    ELSE IF m.file.kind = "missing" THEN FailedLoad(m, "readError")
    ELSE IF m.file.kind = "empty" THEN FailedLoad(m, "empty")
    ELSE IF m.file.kind = "malformed" THEN FailedLoad(m, "malformed")
    ELSE IF m.file.kind = "noConfigurations" \/ Val(m.file.value).configurations = << >>
    THEN FailedLoad(m, "noConfigurations")
    ELSE Logged(m,
             SquigglesOnSuccess(WriteBack(MigrateVersion(MarkComplete(StripReservedEnv(
                 NormalizeProviderIds(AssignDocument(
                     [ m EXCEPT !.ret = "true", !.dirty = FALSE, !.idChanged = FALSE,
                                !.messages = {} ],
                     Val(m.file.value)))))))),
             "ok")

----------------------------------------------------------------------------
\* Default values and variable resolution

\* paths other than c_cpp_properties.json that exist on disk
ExistingPaths == { "cc1.json", "cc2.json" }

WorkspaceFolderBasename == "proj"

ExtendedEnvironment(m) ==
    LET doc == Val(m.configurationJson)
        e == IF IsSome(doc.env) THEN Val(doc.env) ELSE << >>
    IN [ k \in (DOMAIN e) \cup { "workspaceFolderBasename" } |->
           IF k = "workspaceFolderBasename" THEN WorkspaceFolderBasename ELSE e[k] ]

isUnset(input) == input = Null
isUnsetList(input) == input = None

applyDefaultConfigurationValues(m, configuration) ==
    [ configuration EXCEPT
        !.includePath =
            IF isUnsetList(m.settings.defaultIncludePath)
            THEN Some(<< IF UseRecursiveIncludes THEN "${workspaceFolder}/**"
                         ELSE "${workspaceFolder}" >> \o m.vcpkgIncludes)
            ELSE @,
        !.defines =
            IF isUnsetList(m.settings.defaultDefines)
            THEN Some(IF platform = "win32" THEN << "_DEBUG", "UNICODE", "_UNICODE" >> ELSE << >>)
            ELSE @,
        !.macFrameworkPath =
            IF isUnsetList(m.settings.defaultMacFrameworkPath) /\ platform = "darwin"
            THEN defaultFrameworks(m) ELSE @,
        !.windowsSdkVersion =
            IF isUnset(m.settings.defaultWindowsSdkVersion) /\ Truthy(defaultWindowsSdkVersion(m))
               /\ platform = "win32"
            THEN defaultWindowsSdkVersion(m) ELSE @,
        !.compilerPath =
            IF isUnset(m.settings.defaultCompilerPath) /\ Truthy(defaultCompilerPath(m))
               /\ isUnset(m.settings.defaultCompileCommands)
               /\ ~Truthy(configuration.compileCommands)
            THEN defaultCompilerPath(m) ELSE @,
        !.knownCompilers = IF IsSome(knownCompilers(m)) THEN knownCompilers(m) ELSE @,
        !.cStandard =
            IF isUnset(m.settings.defaultCStandard) /\ Truthy(defaultCStandard(m))
            THEN defaultCStandard(m) ELSE @,
        !.cppStandard =
            IF isUnset(m.settings.defaultCppStandard) /\ Truthy(defaultCppStandard(m))
            THEN defaultCppStandard(m) ELSE @,
        !.intelliSenseMode =
            IF isUnset(m.settings.defaultIntelliSenseMode) THEN defaultIntelliSenseMode(m) ELSE @ ]

\* the configuration is the object this.CurrentConfiguration; with an index
\* outside the list it is undefined and the first assignment to it raises a
\* TypeError (knownCompilers is assigned whenever the defaults were delivered)
applyDefaultIncludePathsAndFrameworks(m) ==
    IF m.configurationIncomplete /\ IsSome(defaultIncludes(m)) /\ IsSome(defaultFrameworks(m))
       /\ m.vcpkgPathReady
    THEN IF m.configurationJson = None
            \/ ~IndexInRange(m.currentConfigurationIndex, Configurations(m))
         THEN [ m EXCEPT !.threw = TRUE ]
         ELSE LET cs == Configurations(m)
                  i == m.currentConfigurationIndex + 1
              IN [ SetConfigurations(m,
                       [ cs EXCEPT ![i] = applyDefaultConfigurationValues(m, cs[i]) ])
                   EXCEPT !.configurationIncomplete = FALSE ]
    ELSE m

\* variant of resolveDefaults: the default values are put after the entries
resolveDefaultsAtEnd(entries, defaultValue) ==
    SelectSeq(entries, LAMBDA e : e # DefaultSentinel)
    \o (IF defaultValue # None /\ DefaultSentinel \in SeqToSet(entries)
        THEN Val(defaultValue) ELSE << >>)

resolveDefaults(entries, defaultValue) ==
    Flatten([ i \in 1..Len(entries) |->
        IF entries[i] = DefaultSentinel
        THEN (IF defaultValue # None THEN Val(defaultValue) ELSE << >>)
        ELSE << entries[i] >> ])

resolveAndSplit(paths, defaultValue, env) ==
    IF paths # None
    THEN LET ps == resolveDefaults(Val(paths), defaultValue)
         IN Flatten([ i \in 1..Len(ps) |-> SplitSemicolon(utilResolveVariables(ps[i], env)) ])
    ELSE << >>

\* resolveVariables(input, defaultValue, env) for string | boolean values; the
\* JavaScript booleans are the values "TRUE" and "FALSE" of the model
IsBooleanValue(x) == x \in { "TRUE", "FALSE" }
IsStringValue(x) == x \notin { Undefined, Null, "TRUE", "FALSE" }

\* variant of resolveVariables: only an absent input takes the default value
resolveVariablesOfAbsent(input, defaultValue, env) ==
    LET in == IF input = Undefined THEN defaultValue ELSE input
    IN IF IsBooleanValue(in) THEN in ELSE utilResolveVariables(in, env)

resolveVariables(input, defaultValue, env) ==
    LET in == IF input = Undefined \/ input = DefaultSentinel THEN defaultValue ELSE input
    IN IF IsBooleanValue(in) THEN in ELSE utilResolveVariables(in, env)

\* updateConfiguration for a string or boolean property
updateConfigurationScalar(property, defaultValue, env) ==
    IF IsStringValue(property) \/ IsStringValue(defaultValue)
    THEN resolveVariables(property, defaultValue, env)
    ELSE IF IsBooleanValue(property) \/ IsBooleanValue(defaultValue)
    THEN resolveVariables(property, defaultValue, env)
    ELSE property

\* updateConfiguration for a string[] property
updateConfigurationList(property, defaultValue, env) ==
    IF property # None \/ defaultValue # None
    THEN IF property # None
         THEN Some(resolveAndSplit(property, defaultValue, env))
         ELSE Some(resolveAndSplit(defaultValue, Some(<< >>), env))
    ELSE property

IsWorkspaceRootToken(value) ==
    value \in { r \o t : r \in { "${workspaceRoot}", "${workspaceFolder}" },
                        t \in { "", "/", "/*", "/**", "\\", "\\*", "\\**" } }

\* lines 541-551: the properties of one configuration
ResolveProperties(s, configuration, env) ==
    [ configuration EXCEPT
        !.includePath = updateConfigurationList(@, s.defaultIncludePath, env),
        !.defines = updateConfigurationList(@, s.defaultDefines, env),
        !.macFrameworkPath = updateConfigurationList(@, s.defaultMacFrameworkPath, env),
        !.windowsSdkVersion = updateConfigurationScalar(@, s.defaultWindowsSdkVersion, env),
        !.forcedInclude = updateConfigurationList(@, s.defaultForcedInclude, env),
        !.compileCommands = updateConfigurationScalar(@, s.defaultCompileCommands, env),
        !.compilerPath = updateConfigurationScalar(@, s.defaultCompilerPath, env),
        !.cStandard = updateConfigurationScalar(@, s.defaultCStandard, env),
        !.cppStandard = updateConfigurationScalar(@, s.defaultCppStandard, env),
        !.intelliSenseMode = updateConfigurationScalar(@, s.defaultIntelliSenseMode, env),
        !.configurationProvider =
            updateConfigurationScalar(@, s.defaultConfigurationProvider, env) ]

\* configuration.browse, {} when it is absent (lines 553-555)
BrowseOf(c) == IF c.browse = None THEN EmptyBrowse ELSE Val(c.browse)

\* variant of ResolveBrowsePath: ${workspaceFolder} is added to every copy
ResolveBrowsePathAlwaysAdded(s, c, env) ==
    IF BrowseOf(c).path = None
    THEN IF s.defaultBrowsePath # None
         THEN s.defaultBrowsePath
         ELSE IF c.includePath # None
         THEN Some(Append(Val(c.includePath), "${workspaceFolder}"))
         ELSE None
    ELSE updateConfigurationList(BrowseOf(c).path, s.defaultBrowsePath, env)

\* lines 557-570; an empty array is truthy: only an absent path takes the fallbacks
ResolveBrowsePath(s, c, env) ==
    IF BrowseOf(c).path = None
    THEN IF s.defaultBrowsePath # None
         THEN s.defaultBrowsePath
         ELSE IF c.includePath # None
         THEN Some(IF \E i \in 1..Len(Val(c.includePath)) :
                          IsWorkspaceRootToken(Val(c.includePath)[i])
                   THEN Val(c.includePath)
                   ELSE Append(Val(c.includePath), "${workspaceFolder}"))
         ELSE None
    ELSE updateConfigurationList(BrowseOf(c).path, s.defaultBrowsePath, env)

\* lines 553-573: c is the configuration after lines 541-551
ResolveBrowse(s, c, env) ==
    [ c EXCEPT !.browse =
        Some([ path |-> ResolveBrowsePath(s, c, env),
               limitSymbolsToIncludedHeaders |->
                   updateConfigurationScalar(BrowseOf(c).limitSymbolsToIncludedHeaders,
                                             s.defaultLimitSymbolsToIncludedHeaders, env),
               databaseFilename |->
                   updateConfigurationScalar(BrowseOf(c).databaseFilename,
                                             s.defaultDatabaseFilename, env) ]) ]

\* lines 538-573: one configuration of updateServerOnFolderSettingsChange
ResolveConfiguration(m, configuration, env) ==
    ResolveBrowse(m.settings, ResolveProperties(m.settings, configuration, env), env)

\* variant of updateCompileCommandsFileWatchers: a change of the watched paths
\* is reported at once
updateCompileCommandsFileWatchersAndFire(m) ==
    LET w == Dedup(SelectSeq([ i \in 1..Len(Configurations(m)) |->
                                 Configurations(m)[i].compileCommands ],
                             LAMBDA p : p # Undefined /\ p \in ExistingPaths))
    IN IF w # m.compileCommandFileWatchers /\ w # << >>
       THEN [ m EXCEPT !.compileCommandFileWatchers = w,
                       !.fired = Append(@,
                           [ event |-> "compileCommandsChanged",
                             defaultsDelivered |-> m.compilerDefaults # None,
                             incomplete |-> m.configurationIncomplete,
                             path |-> w[1],
                             index |-> m.currentConfigurationIndex ]) ]
       ELSE [ m EXCEPT !.compileCommandFileWatchers = w ]

\* lines 585-586: watcher.close() on each handle of the list, and the list
\* is emptied
RECURSIVE WithoutFirst(_, _)
WithoutFirst(open, path) ==
    IF open = << >> THEN << >>
    ELSE IF Head(open) = path THEN Tail(open)
    ELSE << Head(open) >> \o WithoutFirst(Tail(open), path)
RECURSIVE CloseEach(_, _)
CloseEach(open, watchers) ==
    IF watchers = << >> THEN open
    ELSE CloseEach(WithoutFirst(open, Head(watchers)), Tail(watchers))
CloseWatchers(m) ==
    [ m EXCEPT !.openWatches = CloseEach(@, m.compileCommandFileWatchers),
               !.compileCommandFileWatchers = << >> ]

\* lines 587-592: the distinct compileCommands that exist, in the order of
\* the configurations
WatchedFilePaths(m) ==
    Dedup(SelectSeq([ i \in 1..Len(Configurations(m)) |-> Configurations(m)[i].compileCommands ],
                    LAMBDA p : p # Undefined /\ p \in ExistingPaths))

\* lines 593-604: fs.watch on each path; when it throws, at the limit of the
\* system, the paths that follow are not watched and the exception is caught
RegisterWatchers(m, filePaths) ==
    [ m EXCEPT !.compileCommandFileWatchers =
                   SubSeq(filePaths, 1, Min({ Len(filePaths),
                                              m.watchLimit - Len(m.openWatches) })),
               !.openWatches =
                   @ \o SubSeq(filePaths, 1, Min({ Len(filePaths),
                                                   m.watchLimit - Len(m.openWatches) })),
               !.watchUpdated = TRUE ]

\* variant of updateCompileCommandsFileWatchers: the list is emptied and its
\* handles are left open
updateCompileCommandsFileWatchersUnclosed(m) ==
    RegisterWatchers([ m EXCEPT !.compileCommandFileWatchers = << >> ], WatchedFilePaths(m))

\* lines 584-605: close every handle, then watch each distinct existing file
updateCompileCommandsFileWatchers(m) ==
    RegisterWatchers(CloseWatchers(m), WatchedFilePaths(m))

onConfigurationsChanged(m) ==
    [ m EXCEPT !.fired = Append(@,
        [ event |-> "configurationsChanged",
          defaultsDelivered |-> m.compilerDefaults # None,
          incomplete |-> m.configurationIncomplete,
          path |-> Undefined,
          index |-> m.currentConfigurationIndex ]) ]

\* lines 536-574: every configuration is resolved against the settings
ResolveAll(m) ==
    SetConfigurations(m, [ i \in 1..Len(Configurations(m)) |->
        ResolveConfiguration(m, Configurations(m)[i], ExtendedEnvironment(m)) ])

\* lines 577-579
FireUnlessIncomplete(m) ==
    IF ~m.configurationIncomplete THEN onConfigurationsChanged(m) ELSE m

updateServerOnFolderSettingsChange(m) ==
    IF m.configurationJson = None THEN m
    ELSE FireUnlessIncomplete(updateCompileCommandsFileWatchers(ResolveAll(m)))

\* lines 734-740
ClampIndex(m) ==
    IF IsSome(m.configurationJson)
       /\ ~IndexInRange(m.currentConfigurationIndex, Configurations(m))
    THEN [ m EXCEPT !.currentConfigurationIndex =
               getConfigIndexForPlatform(m, Val(m.configurationJson)) ]
    ELSE m

\* lines 730-741
ParseAndClamp(m) ==
    IF m.propertiesFile = "uri" THEN ClampIndex(parsePropertiesFile(m)) ELSE m

\* lines 743-745
ResetWithoutDocument(m) ==
    IF m.configurationJson = None THEN resetToDefaultSettings(m, TRUE) ELSE m

\* line 748, not reached when line 747 raised
UpdateServerUnlessThrown(m) ==
    IF m.threw THEN m ELSE updateServerOnFolderSettingsChange(m)

\* lines 725-749
handleConfigurationChange(m) ==
    IF m.propertiesFile = "undefined" THEN m
    ELSE UpdateServerUnlessThrown(applyDefaultIncludePathsAndFrameworks(
             ResetWithoutDocument(ParseAndClamp([ m EXCEPT !.mtimeNewer = FALSE ]))))

----------------------------------------------------------------------------
\* The state after a handler ran

ApplyObject(m) ==
    /\ propertiesFile' = m.propertiesFile
    /\ configurationJson' = m.configurationJson
    /\ currentConfigurationIndex' = m.currentConfigurationIndex
    /\ configurationIncomplete' = m.configurationIncomplete
    /\ compilerDefaults' = m.compilerDefaults
    /\ vcpkgPathReady' = m.vcpkgPathReady
    /\ vcpkgIncludes' = m.vcpkgIncludes
    /\ compileCommandFileWatchers' = m.compileCommandFileWatchers
    /\ settings' = m.settings
    /\ file' = m.file
    /\ fileWritable' = m.fileWritable
    /\ mtimeNewer' = m.mtimeNewer
    /\ pendingEvents' = m.pendingEvents
    /\ tracked' = m.tracked
    /\ pendingEdits' = m.pendingEdits
    /\ settingsPanel' = m.settingsPanel
    /\ loads' = m.loads
    /\ fired' = m.fired
    /\ writes' = m.writes
    /\ ensured' = m.ensured
    /\ call' = m.call
    /\ diagnosticCollection' = m.diagnosticCollection
    /\ pendingSquiggles' = m.pendingSquiggles
    /\ watchLimit' = m.watchLimit
    /\ openWatches' = m.openWatches
    /\ watchUpdated' = m.watchUpdated
    /\ UNCHANGED platform

\* a handler other than the callback of a diagnostics pass
Apply(m) ==
    /\ ApplyObject(m)
    /\ squigglePass' = None
    /\ UNCHANGED << prevSquiggleMetrics, document, pathsOnDisk >>

----------------------------------------------------------------------------
\* Inputs

NoSettings ==
    [ defaultIncludePath |-> None, defaultDefines |-> None, defaultMacFrameworkPath |-> None,
      defaultWindowsSdkVersion |-> Null, defaultForcedInclude |-> None,
      defaultCompileCommands |-> Null, defaultCompilerPath |-> Null,
      defaultCStandard |-> Null, defaultCppStandard |-> Null,
      defaultIntelliSenseMode |-> Null, defaultConfigurationProvider |-> Null,
      defaultBrowsePath |-> None, defaultLimitSymbolsToIncludedHeaders |-> Null,
      defaultDatabaseFilename |-> Null, defaultEnableConfigurationSquiggles |-> Null,
      settingsEditor |-> "json" ]

DetectedDefaults ==
    [ compilerPath |-> "/usr/bin/gcc",
      knownCompilers |-> << [ path |-> "/usr/bin/gcc", isC |-> TRUE ] >>,
      cStandard |-> "c11", cppStandard |-> "c++17",
      includes |-> << "/usr/include" >>,
      frameworks |-> << "/System/Library/Frameworks" >>,
      windowsSdkVersion |-> "10.0.17763.0",
      intelliSenseMode |-> "gcc-x64",
      rootfs |-> "" ]

----------------------------------------------------------------------------
\* Handlers

\* the `finally` of buildVcpkgIncludePath (lines 352-355)
VcpkgScanDone(incl) ==
    /\ ~vcpkgPathReady
    /\ Apply(handleConfigurationChange(
                 [ M EXCEPT !.vcpkgIncludes = incl, !.vcpkgPathReady = TRUE ]))

\* set CompilerDefaults (lines 167-223)
SetCompilerDefaults(cd) ==
    /\ compilerDefaults = None
    /\ Apply(handleConfigurationChange(
                 [ M EXCEPT !.compilerDefaults = Some(cd),
                            !.propertiesFile = IF fsExistsSync(file) THEN "uri" ELSE "null" ]))

\* configFileWatcher.onDidCreate (lines 190-193)
OnDidCreate ==
    /\ "create" \in pendingEvents
    /\ Apply(handleConfigurationChange(
                 [ M EXCEPT !.pendingEvents = @ \ { "create" }, !.propertiesFile = "uri" ]))

\* variant of OnDidDelete: the document in memory is not replaced
OnDidDeleteKeepDocument ==
    /\ "delete" \in pendingEvents
    /\ Apply(handleConfigurationChange(
                 [ M EXCEPT !.pendingEvents = @ \ { "delete" }, !.propertiesFile = "null" ]))

\* configFileWatcher.onDidDelete (lines 195-199)
OnDidDelete ==
    /\ "delete" \in pendingEvents
    /\ Apply(handleConfigurationChange(resetToDefaultSettings(
                 [ M EXCEPT !.pendingEvents = @ \ { "delete" }, !.propertiesFile = "null" ], TRUE)))

\* variant of OnDidChange: the documents of the editor are not looked at
OnDidChangeUntracked ==
    /\ "change" \in pendingEvents
    /\ Apply(handleConfigurationChange([ M EXCEPT !.pendingEvents = @ \ { "change" } ]))

\* configFileWatcher.onDidChange (lines 201-214)
OnDidChange ==
    /\ "change" \in pendingEvents
    /\ LET m == [ M EXCEPT !.pendingEvents = @ \ { "change" } ]
       IN Apply(IF ~m.tracked THEN handleConfigurationChange(m) ELSE m)

\* vscode.workspace.onDidChangeTextDocument (lines 216-220)
OnDidChangeTextDocument ==
    /\ "textChange" \in pendingEvents
    /\ Apply(handleConfigurationChange([ M EXCEPT !.pendingEvents = @ \ { "textChange" } ]))

\* checkCppProperties (lines 1350-1367): the callback of fs.stat
checkCppProperties ==
    Apply(IF ~fsExistsSync(file)
          THEN IF propertiesFile = "uri"
               THEN handleConfigurationChange(
                        resetToDefaultSettings([ M EXCEPT !.propertiesFile = "null" ], TRUE))
               ELSE M
          ELSE IF mtimeNewer
               THEN handleConfigurationChange(
                        IF propertiesFile # "uri" THEN [ M EXCEPT !.propertiesFile = "uri" ] ELSE M)
               ELSE M)

\* onDidChangeSettings (lines 242-251)
onDidChangeSettings(m) ==
    IF m.propertiesFile # "uri"
    THEN handleConfigurationChange(resetToDefaultSettings(m, TRUE))
    ELSE IF ~m.configurationIncomplete
    THEN handleConfigurationChange(m)
    ELSE m

\* the user changes the C_Cpp.default.* settings to s (or touches them)
ChangeSettings(s) ==
    Apply(onDidChangeSettings([ M EXCEPT !.settings = s ]))

onSelectionChanged(m) ==
    handleSquiggles(
        [ m EXCEPT !.fired = Append(@,
            [ event |-> "selectionChanged",
              defaultsDelivered |-> m.compilerDefaults # None,
              incomplete |-> m.configurationIncomplete,
              path |-> Undefined,
              index |-> m.currentConfigurationIndex ]) ])

----------------------------------------------------------------------------
\* Edit commands

CurrentConfigurationExists(m) ==
    IsSome(m.configurationJson) /\ IndexInRange(m.currentConfigurationIndex, Configurations(m))

\* config => edited config, applied to this.CurrentConfiguration and followed
\* by writeToJson and handleConfigurationChange (lines 412-419, 427-435, 453-457)
EditCurrent(cmd, arg, config) ==
    IF cmd = "addToIncludePath"
    THEN [ config EXCEPT !.includePath =
             Some(Append(IF @ = None THEN << DefaultSentinel >> ELSE Val(@), arg)) ]
    ELSE IF cmd = "setCompileCommands"
    THEN [ config EXCEPT !.compileCommands = arg ]
    ELSE \* updateCustomConfigurationProvider: a falsy id deletes the property
         [ config EXCEPT !.configurationProvider = IF Truthy(arg) THEN arg ELSE Undefined ]

\* what an edit wrote (history only): p is the machine after the call of
\* parsePropertiesFile that opens the edit, w the machine after its writeToJson
RecordEdit(p, w, cmd, arg, index) ==
    [ w EXCEPT !.writes = Append(@,
        [ cmd |-> cmd, arg |-> arg, index |-> index,
          load |-> p.loads[Len(p.loads)],
          wrote |-> ~w.threw,
          written |-> w.file ]) ]

\* the end of an onCreation callback: handleConfigurationChange, not reached
\* when writeToJson raised
ReloadUnlessThrown(w) == IF w.threw THEN w ELSE handleConfigurationChange(w)

\* an onCreation callback after its call of parsePropertiesFile
EditAndReload(p, cmd, arg) ==
    IF p.threw THEN p
    ELSE IF ~CurrentConfigurationExists(p) THEN [ p EXCEPT !.threw = TRUE ]
    ELSE ReloadUnlessThrown(RecordEdit(p,
             writeToJson(SetConfigurations(p,
                 [ Configurations(p) EXCEPT ![p.currentConfigurationIndex + 1] =
                       EditCurrent(cmd, arg, @) ])),
             cmd, arg, p.currentConfigurationIndex))

onCreation(m, cmd, arg) ==
    IF cmd = "none" THEN m ELSE EditAndReload(parsePropertiesFile(m), cmd, arg)

\* vscode.workspace.openTextDocument(this.propertiesFile)
openTextDocument(m) ==
    IF m.propertiesFile = "uri" /\ fsExistsSync(m.file) THEN [ m EXCEPT !.tracked = TRUE ] ELSE m

OpenUnlessThrown(c) == IF c.threw THEN c ELSE openTextDocument(c)

\* the callback of handleConfigurationEditJSONCommand (lines 617-628)
EditJSONCallback(m, cmd, arg) == OpenUnlessThrown(onCreation(m, cmd, arg))

\* lines 651-665: p is the machine after parsePropertiesFile
ShowPanelOrDocument(p) ==
    IF p.threw THEN p
    ELSE IF p.ret = "true"
    THEN [ p EXCEPT !.settingsPanel = Some(p.currentConfigurationIndex) ]
    ELSE openTextDocument(p)

ParseUnlessThrown(c) == IF c.threw THEN c ELSE ShowPanelOrDocument(parsePropertiesFile(c))

\* the callback of handleConfigurationEditUICommand (lines 645-667)
EditUICallback(m, cmd, arg) ==
    IF m.propertiesFile # "uri" THEN m ELSE ParseUnlessThrown(onCreation(m, cmd, arg))

EditCallback(m, e) ==
    IF e.variant = "ui" THEN EditUICallback(m, e.cmd, e.arg)
    ELSE EditJSONCallback(m, e.cmd, e.arg)

SetKnownCompilersOfFirst(m, kc) ==
    SetConfigurations(m, [ Configurations(m) EXCEPT ![1] = [ @ EXCEPT !.knownCompilers = kc ] ])

\* ensurePropertiesFile up to the await of line 775.  The result has
\* suspended = TRUE when the write was started; content is the text handed to it.

\* lines 761-764
EnsureDefaults(m) ==
    applyDefaultIncludePathsAndFrameworks(
        IF IsSome(m.configurationJson) THEN resetToDefaultSettings(m, TRUE) ELSE m)

\* lines 765-771
AdoptDefaultProvider(m) ==
    IF Truthy(m.settings.defaultConfigurationProvider)
    THEN [ SetConfigurations(m,
               [ i \in 1..Len(Configurations(m)) |->
                   [ Configurations(m)[i] EXCEPT !.configurationProvider =
                         m.settings.defaultConfigurationProvider ] ])
           EXCEPT !.settings.defaultConfigurationProvider = Null ]
    ELSE m

\* lines 772-775: the write is started with the text of the document
EnsureSuspended(m) ==
    [ m |-> SetKnownCompilersOfFirst(m, None), suspended |-> TRUE,
      content |-> JSONstringify(Val(SetKnownCompilersOfFirst(m, None).configurationJson)),
      saved |-> Configurations(m)[1].knownCompilers ]

\* without a document lines 764-772 raise a TypeError, caught at line 780
EnsureResult(m) ==
    IF m.threw \/ m.configurationJson = None
    THEN [ m |-> [ m EXCEPT !.threw = FALSE ], suspended |-> FALSE,
           content |-> FileMissing, saved |-> None ]
    ELSE EnsureSuspended(AdoptDefaultProvider(m))

EnsureBegin(m) == EnsureResult(EnsureDefaults(m))

\* the return of ensurePropertiesFile, observed: what it saved, the text it
\* handed to the write, whether the file was written, and the knownCompilers
\* of the first configuration it leaves
EnsureReturned(m, e, wrote) ==
    [ m EXCEPT !.call = Some(<< "ensurePropertiesFile", << e.saved, e.content, wrote >>,
                                Configurations(m)[1].knownCompilers >>) ]

\* ensurePropertiesFile after the await (lines 776-782); a failed write
\* raises, and line 776 is skipped for the catch of line 780
EnsureEnd(m, e) ==
    IF m.fileWritable
    THEN EnsureReturned([ SetKnownCompilersOfFirst(DiskWrite(m, e.content), e.saved)
                          EXCEPT !.propertiesFile = "uri" ], e, TRUE)
    ELSE EnsureReturned(m, e, FALSE)

\* b is the result of EnsureBegin: the command waits for the write, or goes
\* on at once when ensurePropertiesFile did not reach it
SuspendOrContinue(b, variant, cmd, arg) ==
    IF b.suspended
    THEN /\ Len(b.m.pendingEdits) < MaxPendingEdits
         /\ Apply([ b.m EXCEPT !.pendingEdits =
                      Append(@, [ variant |-> variant, cmd |-> cmd, arg |-> arg,
                                  content |-> b.content, saved |-> b.saved ]),
                               !.ensured = @ \cup { cmd } ])
    ELSE Apply(EditCallback(b.m, [ variant |-> variant, cmd |-> cmd, arg |-> arg ]))

\* an edit command: handleConfigurationEditJSONCommand / ...UICommand
StartEdit(m, variant, cmd, arg) ==
    IF m.propertiesFile = "uri" /\ fsExistsSync(m.file)
    THEN Apply(EditCallback(m, [ variant |-> variant, cmd |-> cmd, arg |-> arg ]))
    ELSE SuspendOrContinue(EnsureBegin(m), variant, cmd, arg)

\* the write of ensurePropertiesFile completed or failed: the rest of the command
FinishEdit(k) ==
    /\ k \in 1..Len(pendingEdits)
    /\ Apply(EditCallback(
           EnsureEnd([ M EXCEPT !.pendingEdits =
                         [ i \in 1..(Len(@) - 1) |-> IF i < k THEN @[i] ELSE @[i + 1] ] ],
                     pendingEdits[k]),
           pendingEdits[k]))

addToIncludePathCommand(path) ==
    StartEdit(M, settings.settingsEditor, "addToIncludePath", path)

setCompileCommands(path) ==
    StartEdit(M, "json", "setCompileCommands", path)

updateCustomConfigurationProvider(providerId) ==
    IF propertiesFile = "uri"
    THEN StartEdit(M, "json", "provider", providerId)
    ELSE \* lines 439-446: the setting is updated, then the current configuration
         \* (a TypeError without one)
         LET m == [ M EXCEPT !.settings.defaultConfigurationProvider =
                                 IF Truthy(providerId) THEN providerId ELSE Null ]
         IN IF CurrentConfigurationExists(m)
            THEN LET cs == Configurations(m)
                     i == currentConfigurationIndex + 1
                 IN Apply(SetConfigurations(m,
                              [ cs EXCEPT ![i] = [ @ EXCEPT !.configurationProvider = providerId ] ]))
            ELSE Apply(m)

\* variant of select: the index is set and nothing is fired
selectUnannounced(index) ==
    /\ IsSome(configurationJson)
    /\ IF index = Len(Configurations(M))
       THEN StartEdit(M, "ui", "none", Undefined)
       ELSE IF index = Len(Configurations(M)) + 1
       THEN StartEdit(M, "json", "none", Undefined)
       ELSE Apply([ M EXCEPT !.currentConfigurationIndex = index ])

\* select(index) (lines 461-473); without a document the first line raises
select(index) ==
    /\ IsSome(configurationJson)
    /\ IF index = Len(Configurations(M))
       THEN StartEdit(M, "ui", "none", Undefined)
       ELSE IF index = Len(Configurations(M)) + 1
       THEN StartEdit(M, "json", "none", Undefined)
       ELSE Apply(onSelectionChanged([ M EXCEPT !.currentConfigurationIndex = index ]))

\* lines 709-722: p is the machine after parsePropertiesFile
AddConfig(p, configName) ==
    IF p.threw \/ p.configurationJson = None THEN [ p EXCEPT !.threw = TRUE ]
    ELSE RecordEdit(p,
             writeToJson(
                 [ SetConfigurations(p, Append(Configurations(p),
                       [ applyDefaultConfigurationValues(p, NamedConfig(configName))
                         EXCEPT !.knownCompilers = None ]))
                   EXCEPT !.settingsPanel = Some(Len(Configurations(p))) ]),
             "addConfig", configName, Len(Configurations(p)))

\* onAddConfigRequested (lines 706-723), a message of the settings UI
onAddConfigRequested(configName) ==
    /\ IsSome(settingsPanel)
    /\ (fsExistsSync(file) /\ file.kind = "json") => Len(Val(file.value).configurations) < MaxConfigs
    /\ IsSome(configurationJson) => Len(Configurations(M)) < MaxConfigs
    /\ Apply(AddConfig(parsePropertiesFile(M), configName))

\* lines 694-697: p is the machine after parsePropertiesFile, config the
\* values held by the settings UI
SaveConfig(p, config) ==
    IF p.threw \/ p.configurationJson = None THEN [ p EXCEPT !.threw = TRUE ]
    ELSE RecordEdit(p,
             writeToJson(SetConfigurations(p,
                 IF Val(p.settingsPanel) = Len(Configurations(p))
                 THEN Append(Configurations(p), config)
                 ELSE [ Configurations(p) EXCEPT ![Val(p.settingsPanel) + 1] = config ])),
             "saveUI", config, Val(p.settingsPanel))

\* saveConfigurationUI (lines 692-698), a message of the settings UI with the
\* values `config`; the configuration shown by the UI is one of the document
\* or follows its last one
saveConfigurationUI(config) ==
    /\ IsSome(settingsPanel)
    /\ fsExistsSync(file) /\ file.kind = "json" =>
           Val(settingsPanel) <= Len(Val(file.value).configurations)
    /\ IsSome(configurationJson) => Val(settingsPanel) <= Len(Configurations(M))
    /\ Apply(SaveConfig(parsePropertiesFile(M), config))

----------------------------------------------------------------------------
\* The environment

\* another program writes the file
ExternalWrite(content) ==
    /\ content # file
    /\ fsExistsSync(content)
    /\ Apply(DiskWrite(M, content))

ExternalDelete ==
    /\ fsExistsSync(file)
    /\ Apply(Raise([ M EXCEPT !.file = FileMissing ], { "delete" }))

SetWritable(b) ==
    /\ fileWritable # b
    /\ Apply([ M EXCEPT !.fileWritable = b ])

\* the user opens or closes the file in an editor
EditorOpen ==
    /\ ~tracked /\ fsExistsSync(file)
    /\ Apply([ M EXCEPT !.tracked = TRUE ])

EditorClose ==
    /\ tracked
    /\ Apply([ M EXCEPT !.tracked = FALSE ])

\* the callback given to fs.watch for a compile_commands file (lines 595-599)
onCompileCommandsChanged(m, path) ==
    [ m EXCEPT !.fired = Append(@,
        [ event |-> "compileCommandsChanged",
          defaultsDelivered |-> m.compilerDefaults # None,
          incomplete |-> m.configurationIncomplete,
          path |-> path,
          index |-> m.currentConfigurationIndex ]) ]

CompileCommandsFileEvent(k, event) ==
    /\ k \in 1..Len(compileCommandFileWatchers)
    /\ Apply(IF event # "rename" THEN onCompileCommandsChanged(M, compileCommandFileWatchers[k])
             ELSE M)

----------------------------------------------------------------------------
\* Input documents

Names == { "Linux", "A" }

\* a document as another program may write it: configurations named `names`,
\* the first one with compileCommands cc and configurationProvider id
MakeDoc(names, cc, id, version, env) ==
    [ configurations |->
          [ i \in 1..Len(names) |->
              IF i = 1
              THEN [ NamedConfig(names[i]) EXCEPT !.compileCommands = cc,
                                                  !.configurationProvider = id ]
              ELSE NamedConfig(names[i]) ],
      env |-> env,
      version |-> version,
      enableConfigurationSquiggles |-> Undefined ]

NameLists == UNION { [ 1..n -> Names ] : n \in 0..MaxConfigs }

BadTexts == { FileEmpty, FileMalformed, FileNoConfigs }

\* texts of the selection / notification specification
SelectionTexts ==
    BadTexts \cup
    { JSONstringify(MakeDoc(ns, Undefined, Undefined, Some(configVersion), None)) :
        ns \in NameLists }

\* the indexes given to select
SelectInputs == -1..(MaxConfigs + 2)

\* index names one of the two edit entries that follow the configurations in
\* the quick pick (lines 462-469)
IsEditEntry(index) ==
    IsSome(configurationJson)
    /\ index \in { Len(Configurations(M)), Len(Configurations(M)) + 1 }

InitialIndexes == { -1, 1 }

\* this.rootUri.fsPath
WorkspaceRoot == << "/", "p", "r", "o", "j" >>

\* The files the paths of the configurations may name, written with "/", and
\* what the disk holds at each of them.
FsKinds == { "none", "directory", "file" }
FsFiles == { << "/", "u" >>, << "r" >>, WorkspaceRoot \o << "/", "r" >> }
Disks == [ FsFiles -> FsKinds ]
NothingOnDisk == [ f \in FsFiles |-> "none" ]

InitWith(texts, platforms, indexes) ==
    /\ platform \in platforms
    /\ propertiesFile = "undefined"
    /\ configurationJson = None
    /\ currentConfigurationIndex \in indexes
    /\ configurationIncomplete = TRUE
    /\ compilerDefaults = None
    /\ vcpkgPathReady = FALSE
    /\ vcpkgIncludes = << >>
    /\ compileCommandFileWatchers = << >>
    /\ settings = NoSettings
    /\ file \in texts \cup { FileMissing }
    /\ fileWritable = TRUE
    /\ mtimeNewer = FALSE
    /\ pendingEvents = {}
    /\ tracked = FALSE
    /\ pendingEdits = << >>
    /\ settingsPanel = None
    /\ loads = << >>
    /\ fired = << >>
    /\ writes = << >>
    /\ ensured = {}
    /\ call = None
    /\ diagnosticCollection = << >>
    /\ prevSquiggleMetrics = [ n \in {} |-> 0 ]
    /\ pendingSquiggles = 0
    /\ document = [ wellFormed |-> FALSE, blocks |-> << >> ]
    /\ pathsOnDisk = NothingOnDisk
    /\ squigglePass = None
    /\ watchLimit = MaxConfigs
    /\ openWatches = << >>
    /\ watchUpdated = FALSE

Init == InitWith(SelectionTexts, { "linux" }, InitialIndexes)

Next ==
    \/ VcpkgScanDone(<< >>)
    \/ SetCompilerDefaults(DetectedDefaults)
    \/ OnDidCreate
    \/ OnDidDelete
    \/ OnDidChange
    \/ checkCppProperties
    \/ ChangeSettings(NoSettings)
    \/ \E i \in SelectInputs : ~IsEditEntry(i) /\ select(i)
    \/ \E t \in SelectionTexts : ExternalWrite(t)
    \/ ExternalDelete

Spec == Init /\ [][Next]_vars

----------------------------------------------------------------------------
\* The load / migration specification: documents of every version, with
\* reserved names in env and a legacy provider id, on two platforms

\* the version values written by the environment: absent, 2, 3, 4, another
Versions == { None, Some(2), Some(3), Some(configVersion), Some(configVersion + 1) }

ReservedEnv == Some([ k \in { "workspaceFolder", "default", "myVar" } |-> "v" ])

FullReservedEnv == Some([ k \in ReservedEnvNames \cup { "myVar" } |-> "v" ])

LoadNames == << "Mac", "A" >>

LoadTexts ==
    { JSONstringify(MakeDoc(LoadNames, Undefined, Undefined, v, None)) : v \in Versions }
    \cup { JSONstringify(MakeDoc(LoadNames, Undefined, Undefined, Some(configVersion), ReservedEnv)),
           JSONstringify(MakeDoc(LoadNames, Undefined, "Prov", Some(configVersion), None)),
           JSONstringify(MakeDoc(LoadNames, Undefined, "Prov", None, FullReservedEnv)),
           FileMalformed }

InitLoad == InitWith(LoadTexts, { "linux", "darwin" }, { -1 })

NextLoad ==
    \/ SetCompilerDefaults(DetectedDefaults)
    \/ OnDidCreate
    \/ OnDidDelete
    \/ OnDidChange
    \/ checkCppProperties
    \/ ChangeSettings(NoSettings)
    \/ \E t \in LoadTexts : ExternalWrite(t)
    \/ ExternalDelete
    \/ \E b \in BOOLEAN : SetWritable(b)

SpecLoad == InitLoad /\ [][NextLoad]_vars

----------------------------------------------------------------------------
\* The migration specification: documents of unknown and of old versions,
\* with configurations whose fields are absent, empty or set, loaded with and
\* without default settings and detected defaults

\* a configuration whose fields hold empty values
EmptyValuesConfig(n) ==
    [ NamedConfig(n) EXCEPT !.intelliSenseMode = "", !.compilerPath = "", !.cStandard = "",
                            !.cppStandard = "c++11", !.macFrameworkPath = Some(<< >>) ]

CommandsConfig(n) == [ NamedConfig(n) EXCEPT !.compileCommands = "cc1.json" ]

FieldsDoc(version) ==
    [ configurations |-> << EmptyValuesConfig("Mac"), CommandsConfig("A") >>, env |-> None,
      version |-> version, enableConfigurationSquiggles |-> Undefined ]

MigrateTexts ==
    { JSONstringify(MakeDoc(LoadNames, Undefined, Undefined, v, None)) :
        v \in { None, Some(0), Some(1), Some(configVersion + 1) } }
    \cup { JSONstringify(MakeDoc(LoadNames, Undefined, "Prov", Some(configVersion + 1), None)) }
    \cup { JSONstringify(FieldsDoc(v)) : v \in { None, Some(3), Some(configVersion + 1) } }

\* settings that hold defaults for the compiler path, the C standard and the
\* IntelliSense mode
MigrateSettings ==
    [ NoSettings EXCEPT !.defaultCompilerPath = "/s/cc", !.defaultCStandard = "c99",
                        !.defaultIntelliSenseMode = "clang-x64" ]

InitMigrate == InitWith(MigrateTexts, { "linux", "darwin" }, { -1 })

NextMigrate ==
    \/ SetCompilerDefaults(DetectedDefaults)
    \/ OnDidChange
    \/ \E st \in { NoSettings, MigrateSettings } : ChangeSettings(st)
    \/ \E t \in MigrateTexts : ExternalWrite(t)
    \/ \E b \in BOOLEAN : SetWritable(b)

SpecMigrate == InitMigrate /\ [][NextMigrate]_vars

----------------------------------------------------------------------------
\* The notification specification: documents that name compile_commands
\* files, the edit command setCompileCommands and the watchers

\* a document of one configuration per entry of ccs, each naming that file
CompileCommandsDoc(ccs) ==
    [ configurations |->
          [ i \in 1..Len(ccs) |->
              [ NamedConfig(IF i = 1 THEN "Linux" ELSE "A") EXCEPT !.compileCommands = ccs[i] ] ],
      env |-> None,
      version |-> Some(configVersion),
      enableConfigurationSquiggles |-> Undefined ]

NotifyTexts ==
    { JSONstringify(CompileCommandsDoc(ccs)) :
        ccs \in { << Undefined >>, << "cc1.json" >>, << "gone.json" >>,
                  << "cc1.json", "cc1.json" >>, << "cc1.json", "cc2.json" >> } }

InitNotify == InitWith(NotifyTexts, { "linux" }, { -1 })

NextNotify ==
    \/ VcpkgScanDone(<< >>)
    \/ SetCompilerDefaults(DetectedDefaults)
    \/ OnDidCreate
    \/ OnDidDelete
    \/ OnDidChange
    \/ checkCppProperties
    \/ ChangeSettings(NoSettings)
    \/ setCompileCommands("cc2.json")
    \/ \E k \in 1..MaxPendingEdits : FinishEdit(k)
    \/ \E k \in 1..MaxConfigs, e \in { "change", "rename" } : CompileCommandsFileEvent(k, e)
    \/ \E t \in NotifyTexts : ExternalWrite(t)
    \/ ExternalDelete

SpecNotify == InitNotify /\ [][NextNotify]_vars

----------------------------------------------------------------------------
\* The edit specification: the commands that change the document and write
\* it, on version-4 texts that need no load-time correction and on texts
\* that do not parse.  The file exists from the start and is never deleted,
\* so that no command waits in ensurePropertiesFile.

EditNameLists == { << "Linux" >> }

EditTexts ==
    { FileMalformed }
    \cup { JSONstringify(MakeDoc(ns, Undefined, Undefined, Some(configVersion), None)) :
              ns \in EditNameLists }

\* the values the settings UI holds when it asks to save
UIConfigs == { [ NamedConfig("Linux") EXCEPT !.compilerPath = "/usr/bin/clang" ] }

\* every includePath of the document has room for one more entry
HasRoom(doc) ==
    \A k \in 1..Len(doc.configurations) :
        doc.configurations[k].includePath # None =>
            Len(Val(doc.configurations[k].includePath)) < MaxPathEntries

\* the user adds include paths only to lists shorter than MaxPathEntries
PathsHaveRoom ==
    /\ file.kind = "json" => HasRoom(Val(file.value))
    /\ IsSome(configurationJson) => HasRoom(Val(configurationJson))

InitEdit == InitWith(EditTexts, { "linux" }, { -1 }) /\ fsExistsSync(file)

NextEdit ==
    \/ VcpkgScanDone(<< >>)
    \/ SetCompilerDefaults(DetectedDefaults)
    \/ OnDidChange
    \/ PathsHaveRoom /\ addToIncludePathCommand("p")
    \/ setCompileCommands("cc2.json")
    \/ updateCustomConfigurationProvider("ms.prov")
    \/ \E i \in SelectInputs : IsEditEntry(i) /\ select(i)
    \/ onAddConfigRequested("B")
    \/ \E c \in UIConfigs : saveConfigurationUI(c)
    \/ \E t \in EditTexts : ExternalWrite(t)

SpecEdit == InitEdit /\ [][NextEdit]_vars

----------------------------------------------------------------------------
\* The race specification: no file exists at first and no other program
\* writes it; two different edit commands are issued, each once, while the
\* file does not exist

InitRace == InitWith({}, { "linux" }, { -1 })

NextRace ==
    \/ VcpkgScanDone(<< >>)
    \/ SetCompilerDefaults(DetectedDefaults)
    \/ OnDidCreate
    \/ OnDidChange
    \/ checkCppProperties
    \/ ChangeSettings(NoSettings)
    \/ /\ ~fsExistsSync(file) /\ "addToIncludePath" \notin ensured
       /\ addToIncludePathCommand("p")
    \/ /\ ~fsExistsSync(file) /\ "setCompileCommands" \notin ensured
       /\ setCompileCommands("cc2.json")
    \/ \E k \in 1..MaxPendingEdits : FinishEdit(k)

SpecRace == InitRace /\ [][NextRace]_vars

\* The creation specification: no file exists at first, edit commands create
\* it, and the folder may be read-only when the write of the file completes
NextEnsure ==
    \/ VcpkgScanDone(<< >>)
    \/ SetCompilerDefaults(DetectedDefaults)
    \/ \E b \in BOOLEAN : SetWritable(b)
    \/ OnDidCreate
    \/ OnDidChange
    \/ /\ ~fsExistsSync(file) /\ "addToIncludePath" \notin ensured
       /\ addToIncludePathCommand("p")
    \/ /\ ~fsExistsSync(file) /\ "setCompileCommands" \notin ensured
       /\ setCompileCommands("cc2.json")
    \/ \E k \in 1..MaxPendingEdits : FinishEdit(k)

SpecEnsure == InitRace /\ [][NextEnsure]_vars

----------------------------------------------------------------------------
\* Paths.  Where the characters of a string matter it is the sequence of its
\* characters; a placeholder ${name} is one element of the sequence.

StartsWith(string, prefix) ==
    Len(string) >= Len(prefix) /\ SubSeq(string, 1, Len(prefix)) = prefix

\* String.prototype.substr(start) and substr(start, length)
Substr(string, start) == SubSeq(string, start + 1, Len(string))
SubstrLen(string, start, length) == SubSeq(string, start + 1, Min({ start + length, Len(string) }))

\* String.prototype.replace(token, by) for a string token: the first occurrence
ReplaceFirst(string, token, by) ==
    IF token \in SeqToSet(string)
    THEN SubSeq(string, 1, Min({ i \in 1..Len(string) : string[i] = token }) - 1)
         \o by
         \o SubSeq(string, Min({ i \in 1..Len(string) : string[i] = token }) + 1, Len(string))
    ELSE string

\* util.resolveVariables on a sequence of characters: every placeholder whose
\* name is a key of env is replaced by its value
utilResolveCharacters(string, env) ==
    Flatten([ i \in 1..Len(string) |->
        IF \E k \in DOMAIN env : string[i] = "${" \o k \o "}"
        THEN env[CHOOSE k \in DOMAIN env : string[i] = "${" \o k \o "}"]
        ELSE << string[i] >> ])

\* util.getVcpkgRoot(): "" when vcpkg is not installed
VcpkgRoots == { << >>, << "/", "v" >> }

\* lines 883-895: the variables, the workspace and vcpkg tokens, the globs
SubstituteTokens(path, env, vcpkgRoot) ==
    SelectSeq(
        ReplaceFirst(
            ReplaceFirst(
                ReplaceFirst(utilResolveCharacters(path, env), "${workspaceFolder}", WorkspaceRoot),
                "${workspaceRoot}", WorkspaceRoot),
            "${vcpkgRoot}", IF vcpkgRoot # << >> THEN vcpkgRoot ELSE << "${vcpkgRoot}" >>),
        LAMBDA c : c # "*")

\* variant of ResolveWslPath: the drive letter is not separated from "/mnt/"
ResolveWslPathKeepMnt(result, isWindows, rootfs) ==
    IF isWindows /\ StartsWith(result, << "/" >>) /\ rootfs # << >>
    THEN rootfs \o Substr(result, 1)
    ELSE result

\* lines 898-907: result is the path after lines 883-895
ResolveWslPath(result, isWindows, rootfs) ==
    IF isWindows /\ StartsWith(result, << "/" >>)
    THEN IF Len(result) > 7 /\ SubstrLen(result, 0, 5) = << "/", "m", "n", "t", "/" >>
         THEN SubstrLen(Substr(result, 5), 0, 1) \o << ":" >> \o Substr(Substr(result, 5), 1)
         ELSE IF rootfs # << >>
         THEN rootfs \o Substr(result, 1)
         ELSE result
    ELSE result

\* resolvePath (lines 875-910); path is None for undefined
resolvePath(path, isWindows, env, vcpkgRoot, rootfs) ==
    IF path = None \/ path = Some(<< >>) \/ path = Some(<< DefaultSentinel >>)
    THEN << >>
    ELSE ResolveWslPath(SubstituteTokens(Val(path), env, vcpkgRoot), isWindows, rootfs)

----------------------------------------------------------------------------
\* The helper specification: the functions that resolve and validate values,
\* each called on inputs of a small universe

\* the helper fn is called with the arguments args (a tuple) and returns out:
\* the object is left as it is.  The helpers keep no state of their own, so
\* a behaviour makes one call.
HelperCall(fn, args, out) ==
    /\ call = None
    /\ call' = Some(<< fn, args, out >>)
    /\ UNCHANGED << platform, propertiesFile, configurationJson, currentConfigurationIndex,
                    configurationIncomplete, compilerDefaults, vcpkgPathReady, vcpkgIncludes,
                    compileCommandFileWatchers, settings, file, fileWritable, mtimeNewer,
                    pendingEvents, tracked, pendingEdits, settingsPanel, loads, fired,
                    writes, ensured, diagnosticCollection, prevSquiggleMetrics,
                    pendingSquiggles, document, pathsOnDisk, squigglePass, watchLimit,
                    openWatches, watchUpdated >>

ListEntries == { DefaultSentinel, "x;y", "a", "${myVar}", "a;;b", ";" }

\* string[] | undefined values of at most MaxPathEntries entries
ListValues ==
    { None } \cup { Some(l) : l \in UNION { [ 1..n -> ListEntries ] : n \in 0..MaxPathEntries } }

\* the default of a setting: null, or a list
ListDefaults == { None, Some(<< >>), Some(<< "z" >>), Some(<< "a", "b" >>), Some(<< "${myVar}" >>) }

Environments == { << >>, [ k \in { "myVar" } |-> "v;w" ] }

resolveAndSplitCall(paths, defaultValue, env) ==
    HelperCall("resolveAndSplit", << paths, defaultValue, env >>,
               resolveAndSplit(paths, defaultValue, env))

\* the paths given to resolvePath
PathInputs ==
    { None } \cup
    { Some(path) : path \in {
      << "/", "m", "n", "t", "/", "c", "/", "f", "o", "o" >>, \* "/mnt/c/foo"
      << "/", "m", "n", "t", "/", "c", "/" >>, \* "/mnt/c/"
      << "/", "m", "n", "t", "/", "c", "d", "/", "x" >>, \* "/mnt/cd/x"
      << "/", "u", "s", "r", "/", "i", "n", "c" >>, \* "/usr/inc"
      << "r", "e", "l", "/", "x" >>, \* "rel/x"
      << "C", ":", "/", "x" >>, \* "C:/x"
      << "${default}" >>, \* "${default}"
      << >>, \* ""
      << "${workspaceFolder}", "/", "i", "n", "c" >>, \* "${workspaceFolder}/inc"
      << "${myVar}" >>, \* "${myVar}"
      << "/", "m", "n", "t", "/", "c", "/", "*", "/", "f" >>, \* "/mnt/c/*/f"
      << "${vcpkgRoot}", "/", "i" >>  \* "${vcpkgRoot}/i"
    } }

\* this.rootfs: empty, or the root of the WSL file system
RootfsValues == { << >>, << "R", ":", "/" >> }

\* the environment of resolvePath: myVar names a WSL path
PathEnvironments == { [ k \in { "myVar" } |-> << "/", "m", "n", "t", "/", "d", "/", "l", "i", "b" >> ] }

resolvePathCall(path, isWindows, env, vcpkgRoot, rootfs) ==
    HelperCall("resolvePath", << path, isWindows, env, vcpkgRoot, rootfs >>,
               resolvePath(path, isWindows, env, vcpkgRoot, rootfs))

\* util.extractCompilerPathAndArgs(compilerPath).compilerName: the name of the
\* executable the path ends with
CompilerName(compilerPath) ==
    IF compilerPath = "C:/VC/bin/cl.exe" THEN "cl.exe"
    ELSE IF compilerPath = "/usr/bin/gcc" THEN "gcc"
    ELSE IF compilerPath = "/usr/bin/clang" THEN "clang"
    ELSE ""

isCompilerIntelliSenseModeCompatibleUnlessUnset(configuration) ==
    IF \/ configuration.compilerPath = Undefined
       \/ configuration.compilerPath = DefaultSentinel
       \/ configuration.intelliSenseMode = Undefined
       \/ configuration.intelliSenseMode = DefaultSentinel
    THEN TRUE
    ELSE (CompilerName(configuration.compilerPath) = "cl.exe")
            = (configuration.intelliSenseMode = "msvc-x64")

isCompilerIntelliSenseModeCompatible(configuration) ==
    IF \/ configuration.compilerPath = Undefined
       \/ configuration.compilerPath = ""
       \/ configuration.compilerPath = DefaultSentinel
       \/ configuration.intelliSenseMode = Undefined
       \/ configuration.intelliSenseMode = ""
       \/ configuration.intelliSenseMode = DefaultSentinel
    THEN TRUE
    ELSE (CompilerName(configuration.compilerPath) = "cl.exe")
            = (configuration.intelliSenseMode = "msvc-x64")

CompilerPaths == { Undefined, "", DefaultSentinel, "C:/VC/bin/cl.exe", "/usr/bin/gcc" }
IntelliSenseModes == { Undefined, "", DefaultSentinel, "msvc-x64", "gcc-x64" }

isCompilerIntelliSenseModeCompatibleCall(compilerPath, intelliSenseMode) ==
    HelperCall("isCompilerIntelliSenseModeCompatible",
               << compilerPath, intelliSenseMode >>,
               isCompilerIntelliSenseModeCompatible(
                   [ NamedConfig("Linux") EXCEPT !.compilerPath = compilerPath,
                                                 !.intelliSenseMode = intelliSenseMode ]))

\* The file system seen by fs.existsSync: what there is at each path.
PathSep(isWindows) == IF isWindows THEN "\\" ELSE "/"

\* the spellings of a path that a Windows host takes for the same file
RECURSIVE SeparatorVariants(_)
SeparatorVariants(path) ==
    IF path = << >> THEN { << >> }
    ELSE { << c >> \o rest :
              c \in (IF Head(path) = "/" THEN { "/", "\\" } ELSE { Head(path) }),
              rest \in SeparatorVariants(Tail(path)) }

ForwardSlashed(path) ==
    [ i \in 1..Len(path) |-> IF path[i] = "\\" THEN "/" ELSE path[i] ]

\* the disk as the fs functions of the host see it: a Windows host finds a
\* file under every spelling of its separators
HostDisk(disk, isWindows) ==
    IF isWindows
    THEN [ path \in UNION { SeparatorVariants(f) : f \in DOMAIN disk } |->
              disk[ForwardSlashed(path)] ]
    ELSE disk

KindAt(fs, path) == IF path \in DOMAIN fs THEN fs[path] ELSE "none"
existsSync(fs, path) == KindAt(fs, path) # "none"
checkDirectoryExistsSync(fs, path) == KindAt(fs, path) = "directory"
checkFileExistsSync(fs, path) == KindAt(fs, path) = "file"

\* The errors of one path whose resolution is resolvedPath; a message is the
\* pair of its text and the path it names.
KindErrors(fs, resolvedPath, isDirectory) ==
    IF isDirectory /\ ~checkDirectoryExistsSync(fs, resolvedPath)
    THEN << << "Path is not a directory: ", resolvedPath >> >>
    ELSE IF ~isDirectory /\ ~checkFileExistsSync(fs, resolvedPath)
    THEN << << "Path is not a file: ", resolvedPath >> >>
    ELSE << >>

PathErrorsNoRetry(fs, resolvedPath, isDirectory, isWindows) ==
    IF resolvedPath = << >> THEN << >>
    ELSE IF ~existsSync(fs, resolvedPath)
    THEN << << "Cannot find: ", resolvedPath >> >>
    ELSE KindErrors(fs, resolvedPath, isDirectory)

PathErrors(fs, resolvedPath, isDirectory, isWindows) ==
    IF resolvedPath = << >> THEN << >>
    ELSE IF ~existsSync(fs, resolvedPath)
    THEN IF ~existsSync(fs, WorkspaceRoot \o << PathSep(isWindows) >> \o resolvedPath)
         THEN << << "Cannot find: ", resolvedPath >> >>
         ELSE KindErrors(fs, WorkspaceRoot \o << PathSep(isWindows) >> \o resolvedPath,
                         isDirectory)
    ELSE KindErrors(fs, resolvedPath, isDirectory)

\* variant of ValidateEach: an error line is pushed once
RECURSIVE ValidateEachDistinct(_, _, _, _, _, _, _)
ValidateEachDistinct(paths, isDirectory, fs, isWindows, env, vcpkgRoot, rootfs) ==
    IF paths = << >> THEN << >>
    ELSE Dedup(PathErrors(fs, resolvePath(Some(Head(paths)), isWindows, env, vcpkgRoot, rootfs),
                          isDirectory, isWindows)
               \o ValidateEachDistinct(Tail(paths), isDirectory, fs, isWindows, env, vcpkgRoot,
                                       rootfs))

RECURSIVE ValidateEach(_, _, _, _, _, _, _)
ValidateEach(paths, isDirectory, fs, isWindows, env, vcpkgRoot, rootfs) ==
    IF paths = << >> THEN << >>
    ELSE PathErrors(fs, resolvePath(Some(Head(paths)), isWindows, env, vcpkgRoot, rootfs),
                    isDirectory, isWindows)
         \o ValidateEach(Tail(paths), isDirectory, fs, isWindows, env, vcpkgRoot, rootfs)

\* errors.join of a non-empty list, undefined otherwise
JoinedOrUndefined(errors) == IF Len(errors) > 0 THEN Some(errors) ELSE None

\* input is undefined (None), a string or an array of strings; .paths is the
\* array, or the array the string is pushed to
validatePath(input, isDirectory, fs, isWindows, env, vcpkgRoot, rootfs) ==
    IF input = None \/ (Val(input).isString /\ Val(input).paths = << << >> >>)
    THEN None
    ELSE JoinedOrUndefined(
             ValidateEach(Val(input).paths,
                          isDirectory, fs, isWindows, env, vcpkgRoot, rootfs))

ValidateInputs ==
    { None }
    \cup { Some([ isString |-> TRUE, paths |-> << v >> ]) :
             v \in { << "/", "u" >>, << "r" >>, << DefaultSentinel >>, << >> } }
    \cup { Some([ isString |-> FALSE, paths |-> v ]) :
             v \in { << >>, << << "/", "u" >>, << "r" >> >>, << << "r" >>, << "r" >> >> } }

validatePathCall(input, isDirectory, disk, env, vcpkgRoot, rootfs) ==
    HelperCall("validatePath",
               << input, isDirectory, HostDisk(disk, platform = "win32"),
                  platform = "win32", rootfs >>,
               validatePath(input, isDirectory, HostDisk(disk, platform = "win32"),
                            platform = "win32", env, vcpkgRoot, rootfs))

InitHelpers == InitWith({}, { "linux", "win32" }, { -1 })

NextHelpers ==
    \/ \E l \in ListValues, d \in ListDefaults, e \in Environments : resolveAndSplitCall(l, d, e)
    \/ \E path \in PathInputs, w \in BOOLEAN, e \in PathEnvironments, v \in VcpkgRoots,
          r \in RootfsValues : resolvePathCall(path, w, e, v, r)
    \/ \E c \in CompilerPaths, i \in IntelliSenseModes :
          isCompilerIntelliSenseModeCompatibleCall(c, i)
    \/ \E input \in ValidateInputs, d \in BOOLEAN, fs \in Disks,
          e \in PathEnvironments, r \in RootfsValues :
          validatePathCall(input, d, fs, e, << >>, r)

SpecHelpers == InitHelpers /\ [][NextHelpers]_vars

----------------------------------------------------------------------------
\* The diagnostics pass (the callback of handleSquiggles, lines 1069-1296)

\* The text of the document is the sequence of its tokens: a quoted string
\* or a sign.  White space, which every pattern of the pass skips, is left
\* out, and an offset into the text is a number of tokens.
Str(s) == [ quoted |-> TRUE, v |-> s ]
Sign(s) == [ quoted |-> FALSE, v |-> s ]

\* the length of "name" with its quotes, in tokens (line 1096)
NameKeyLength == 1

\* A document is given by its configuration blocks; a block is the sequence
\* of its members in the order of the text; the value of a member is the
\* sequence of its strings (one string for a member that is not a list).
Member(key, isList, value) == [ key |-> key, isList |-> isList, value |-> value ]

RECURSIVE CommaJoined(_)
CommaJoined(parts) ==
    IF parts = << >> THEN << >>
    ELSE IF Len(parts) = 1 THEN parts[1]
    ELSE parts[1] \o << Sign(",") >> \o CommaJoined(Tail(parts))

\* the member "browse" is the object { "path": [ ... ] }
MemberTokens(member) ==
    IF member.key = "browse"
    THEN << Str("browse"), Sign(":"), Sign("{"), Str("path"), Sign(":"), Sign("[") >>
         \o CommaJoined([ i \in 1..Len(member.value) |-> << Str(member.value[i]) >> ])
         \o << Sign("]"), Sign("}") >>
    ELSE
    << Str(member.key), Sign(":") >> \o
    (IF member.isList
     THEN << Sign("[") >>
          \o CommaJoined([ i \in 1..Len(member.value) |-> << Str(member.value[i]) >> ])
          \o << Sign("]") >>
     ELSE << Str(member.value[1]) >>)

BlockTokens(block) ==
    << Sign("{") >>
    \o CommaJoined([ i \in 1..Len(block) |-> MemberTokens(block[i]) ])
    \o << Sign("}") >>

\* document.getText()
getText(doc) ==
    << Sign("{"), Str("configurations"), Sign(":"), Sign("[") >>
    \o CommaJoined([ i \in 1..Len(doc.blocks) |-> BlockTokens(doc.blocks[i]) ])
    \o << Sign("]"), Sign(","), Str("version"), Sign(":"), Sign("4"), Sign("}") >>

\* JSON.parse: the value of the last member of the block with the key
HasMember(block, key) == \E i \in 1..Len(block) : block[i].key = key
LastMember(block, key) ==
    block[CHOOSE i \in 1..Len(block) :
             /\ block[i].key = key
             /\ \A j \in (i + 1)..Len(block) : block[j].key # key]
ScalarOf(block, key) ==
    IF HasMember(block, key) THEN LastMember(block, key).value[1] ELSE Undefined
ListOf(block, key) ==
    IF HasMember(block, key) THEN Some(LastMember(block, key).value) ELSE None

ParsedConfiguration(block) ==
    [ NamedConfig(ScalarOf(block, "name")) EXCEPT
        !.compilerPath = ScalarOf(block, "compilerPath"),
        !.intelliSenseMode = ScalarOf(block, "intelliSenseMode"),
        !.compileCommands = ScalarOf(block, "compileCommands"),
        !.includePath = ListOf(block, "includePath"),
        !.macFrameworkPath = ListOf(block, "macFrameworkPath"),
        !.forcedInclude = ListOf(block, "forcedInclude"),
        !.browse = IF HasMember(block, "browse")
                   THEN Some([ EmptyBrowse EXCEPT !.path = ListOf(block, "browse") ])
                   ELSE None ]

\* String.prototype.search and indexOf on tokens: the offset of the first
\* match, -1 when there is none
FirstOf(offsets) == IF offsets = {} THEN -1 ELSE Min(offsets)

MatchesAt(text, offset, pattern) ==
    /\ offset + Len(pattern) <= Len(text)
    /\ SubSeq(text, offset + 1, offset + Len(pattern)) = pattern

Search(text, pattern) ==
    FirstOf({ i \in 0..(Len(text) - 1) : MatchesAt(text, i, pattern) })

\* a pattern that ends with the opening quote of a string
SearchBeforeString(text, pattern) ==
    FirstOf({ i \in 0..(Len(text) - 1) :
                /\ MatchesAt(text, i, pattern)
                /\ i + Len(pattern) < Len(text)
                /\ text[i + Len(pattern) + 1].quoted })

IndexOf(text, token, from) ==
    FirstOf({ i \in from..(Len(text) - 1) : text[i + 1] = token })

\* the text after the name of the configuration whose block starts at
\* configStart, and the offset of that text (lines 1089-1093)
AfterName(text, configStart) ==
    Substr(Substr(text, configStart + 1),
           IndexOf(Substr(text, configStart + 1), Sign(":"), 0) + 1)
OffsetAfterName(text, configStart) ==
    configStart + 1 + IndexOf(Substr(text, configStart + 1), Sign(":"), 0) + 1

\* lines 1097-1102: None when the next configuration does not start with its name
CutAtBoundary(curText) ==
    IF Search(curText, << Sign("}"), Sign(","), Sign("{"), Str("name") >>) = -1 THEN None
    ELSE Some(SubstrLen(curText, 0,
                        Search(curText, << Sign("}"), Sign(","), Sign("{"), Str("name") >>)))

\* lines 1094-1103: the text without the later configurations
CutAtNextName(curText, nextNameStart) ==
    IF nextNameStart = -1 THEN Some(curText)
    ELSE CutAtBoundary(SubstrLen(curText, 0, nextNameStart + NameKeyLength))

ZeroMetrics ==
    [ PathNonExistent |-> 0, PathNotAFile |-> 0, PathNotADirectory |-> 0,
      CompilerPathMissingQuotes |-> 0, CompilerModeMismatch |-> 0 ]
Categories == DOMAIN ZeroMetrics

Finding(category, start, end, message) ==
    [ category |-> category, range |-> << start, end >>, message |-> message ]

\* lines 1112-1131: the finding on intelliSenseMode
ModeFindings(config, curText, curTextStartOffset, isWindows) ==
    IF /\ isWindows
       /\ SearchBeforeString(curText, << Str("intelliSenseMode"), Sign(":") >>) # -1
       /\ ~isCompilerIntelliSenseModeCompatible(config)
    THEN << Finding("CompilerModeMismatch",
                    curTextStartOffset
                      + SearchBeforeString(curText, << Str("intelliSenseMode"), Sign(":") >>) + 2,
                    curTextStartOffset
                      + SearchBeforeString(curText, << Str("intelliSenseMode"), Sign(":") >>) + 3,
                    << "intelliSenseMode is incompatible with compilerPath", 
                       config.intelliSenseMode >>) >>
    ELSE << >>

\* lines 1133-1149: the paths of interest, each once, in the order of insertion
PathsOfInterest(config) ==
    Dedup((IF IsSome(config.browse) /\ IsSome(Val(config.browse).path)
           THEN Val(Val(config.browse).path) ELSE << >>)
          \o (IF IsSome(config.includePath) THEN Val(config.includePath) ELSE << >>)
          \o (IF IsSome(config.macFrameworkPath) THEN Val(config.macFrameworkPath) ELSE << >>)
          \o (IF IsSome(config.forcedInclude) THEN Val(config.forcedInclude) ELSE << >>)
          \o (IF config.compileCommands \notin { Undefined, "" }
              THEN << config.compileCommands >> ELSE << >>)
          \o (IF config.compilerPath \notin { Undefined, "" }
              THEN << config.compilerPath >> ELSE << >>))

\* the characters of the strings the documents are written with
Characters(s) ==
    IF s = DefaultSentinel THEN << DefaultSentinel >>
    ELSE IF s = "" THEN << >>
    ELSE IF s = "/u" THEN << "/", "u" >>
    ELSE IF s = "C:/g" THEN << "C", ":", "/", "g" >>
    ELSE IF s = "/m g -v" THEN << "/", "m", " ", "g", " ", "-", "v" >>
    ELSE IF s = "\"/m g\" -v" THEN << "\"", "/", "m", " ", "g", "\"", " ", "-", "v" >>
    ELSE IF s = "C:/VC/bin/cl.exe"
    THEN << "C", ":", "/", "V", "C", "/", "b", "i", "n", "/", "c", "l", ".", "e", "x", "e" >>
    ELSE << s >>

\* String.prototype.trim
RECURSIVE TrimStart(_)
TrimStart(chars) ==
    IF chars # << >> /\ Head(chars) = " " THEN TrimStart(Tail(chars)) ELSE chars
RECURSIVE TrimEnd(_)
TrimEnd(chars) ==
    IF chars # << >> /\ chars[Len(chars)] = " "
    THEN TrimEnd(SubSeq(chars, 1, Len(chars) - 1)) ELSE chars
Trim(chars) == TrimEnd(TrimStart(chars))

\* util.extractCompilerPathAndArgs: the path of the compiler, without the
\* quotes around it, and whether arguments follow it; the arguments of a
\* path without quotes begin at its first " -"
extractCompilerPathAndArgs(chars) ==
    IF StartsWith(chars, << "\"" >>) /\ Search(Tail(chars), << "\"" >>) # -1
    THEN [ compilerPath |-> SubstrLen(Tail(chars), 0, Search(Tail(chars), << "\"" >>)),
           additionalArgs |->
               Trim(Substr(Tail(chars), Search(Tail(chars), << "\"" >>) + 1)) # << >> ]
    ELSE IF Search(chars, << " ", "-" >>) # -1
    THEN [ compilerPath |-> SubstrLen(chars, 0, Search(chars, << " ", "-" >>)),
           additionalArgs |-> TRUE ]
    ELSE [ compilerPath |-> chars, additionalArgs |-> FALSE ]

\* line 1183 (and lines 927-930): the path has spaces and arguments and is
\* not in quotes
compilerPathNeedsQuotes(resolvedPath) ==
    /\ extractCompilerPathAndArgs(resolvedPath).additionalArgs
    /\ ~StartsWith(resolvedPath, << "\"" >>)
    /\ " " \in SeqToSet(extractCompilerPathAndArgs(resolvedPath).compilerPath)

\* the argument of resolvePath for a string of a configuration
StringCharacters(string) ==
    IF string = Undefined THEN None ELSE Some(Characters(string))

\* lines 1152-1157: the ranges of the members that hold files
FileRangeStarts(curText) ==
    [ forcedInclude |-> Search(curText, << Str("forcedInclude"), Sign(":"), Sign("[") >>),
      compileCommands |-> SearchBeforeString(curText, << Str("compileCommands"), Sign(":") >>),
      compilerPath |-> SearchBeforeString(curText, << Str("compilerPath"), Sign(":") >>) ]

InFileRange(curText, starts, curOffset) ==
    \/ /\ starts.forcedInclude # -1
       /\ curOffset >= starts.forcedInclude
       /\ curOffset <= IndexOf(curText, Sign("]"), starts.forcedInclude)
    \/ /\ starts.compileCommands # -1
       /\ curOffset >= starts.compileCommands
       /\ curOffset <= starts.compileCommands + 2
    \/ /\ starts.compilerPath # -1
       /\ curOffset >= starts.compilerPath
       /\ curOffset <= starts.compilerPath + 3

\* lines 1185-1206: where the path is found, None when it is nowhere
ExeAdded(path) == path \o << ".", "e", "x", "e" >>
existsWithExeAdded(fs, path, isCompilerPath, isWindows) ==
    /\ isCompilerPath
    /\ isWindows
    /\ ~StartsWith(path, << "/" >>)
    /\ existsSync(fs, ExeAdded(path))
Located(fs, resolvedPath, isCompilerPath, isWindows) ==
    IF existsSync(fs, resolvedPath) THEN Some(resolvedPath)
    ELSE IF existsWithExeAdded(fs, resolvedPath, isCompilerPath, isWindows)
    THEN Some(ExeAdded(resolvedPath))
    ELSE IF existsSync(fs, WorkspaceRoot \o << PathSep(isWindows) >> \o resolvedPath)
    THEN Some(WorkspaceRoot \o << PathSep(isWindows) >> \o resolvedPath)
    ELSE None

\* lines 1208-1213: normalize path separators
NormalizeSeparators(path, isWindows) ==
    [ i \in 1..Len(path) |->
        IF path[i] \in { "/", "\\" } THEN PathSep(isWindows) ELSE path[i] ]

\* lines 1223-1226: the offsets of the strings of the text that hold curPath
\* between quotes or semicolons, in ascending order
RECURSIVE Ascending(_)
Ascending(offsets) ==
    IF offsets = {} THEN << >>
    ELSE << Min(offsets) >> \o Ascending(offsets \ { Min(offsets) })
MatchOffsetsWholeString(curText, curPath) ==
    Ascending({ i \in 0..(Len(curText) - 1) :
                  curText[i + 1].quoted /\ curText[i + 1].v = curPath })

MatchOffsets(curText, curPath) ==
    Ascending({ i \in 0..(Len(curText) - 1) :
                  /\ curText[i + 1].quoted
                  /\ curPath \in SeqToSet(SplitSemicolon(curText[i + 1].v)) \cup { curText[i + 1].v } })

\* lines 1231-1258: the finding at one match, << >> for a match that is in order
\* variant of MatchFinding: the quotes are looked at after the file
MatchFindingFileFirst(fs, curText, curTextStartOffset, curOffset, found, resolvedPath, needsQuotes, isWindows) ==
    IF found = None
    THEN << Finding("PathNonExistent", curTextStartOffset + curOffset,
                    curTextStartOffset + curOffset + 1,
                    << "Cannot find", NormalizeSeparators(resolvedPath, isWindows) >>) >>
    ELSE IF InFileRange(curText, FileRangeStarts(curText), curOffset)
    THEN IF checkFileExistsSync(fs, NormalizeSeparators(Val(found), isWindows))
         THEN IF needsQuotes
              THEN << Finding("CompilerPathMissingQuotes", curTextStartOffset + curOffset,
                              curTextStartOffset + curOffset + 1,
                              << "Compiler path with spaces and arguments is missing quotes",
                                 << >> >>) >>
              ELSE << >>
         ELSE << Finding("PathNotAFile", curTextStartOffset + curOffset,
                         curTextStartOffset + curOffset + 1,
                         << "Path is not a file", NormalizeSeparators(Val(found), isWindows) >>) >>
    ELSE IF checkDirectoryExistsSync(fs, NormalizeSeparators(Val(found), isWindows)) THEN << >>
    ELSE << Finding("PathNotADirectory", curTextStartOffset + curOffset,
                    curTextStartOffset + curOffset + 1,
                    << "Path is not a directory", NormalizeSeparators(Val(found), isWindows) >>) >>

MatchFinding(fs, curText, curTextStartOffset, curOffset, found, resolvedPath, needsQuotes, isWindows) ==
    IF found = None
    THEN << Finding("PathNonExistent", curTextStartOffset + curOffset,
                    curTextStartOffset + curOffset + 1,
                    << "Cannot find", NormalizeSeparators(resolvedPath, isWindows) >>) >>
    ELSE IF InFileRange(curText, FileRangeStarts(curText), curOffset)
    THEN IF needsQuotes
         THEN << Finding("CompilerPathMissingQuotes", curTextStartOffset + curOffset,
                         curTextStartOffset + curOffset + 1,
                         << "Compiler path with spaces and arguments is missing quotes",
                            << >> >>) >>
         ELSE IF checkFileExistsSync(fs, NormalizeSeparators(Val(found), isWindows)) THEN << >>
         ELSE << Finding("PathNotAFile", curTextStartOffset + curOffset,
                         curTextStartOffset + curOffset + 1,
                         << "Path is not a file", NormalizeSeparators(Val(found), isWindows) >>) >>
    ELSE IF checkDirectoryExistsSync(fs, NormalizeSeparators(Val(found), isWindows)) THEN << >>
    ELSE << Finding("PathNotADirectory", curTextStartOffset + curOffset,
                    curTextStartOffset + curOffset + 1,
                    << "Path is not a directory", NormalizeSeparators(Val(found), isWindows) >>) >>

RECURSIVE MatchFindings(_, _, _, _, _, _, _, _)
MatchFindings(fs, curText, curTextStartOffset, offsets, found, resolvedPath, needsQuotes, isWindows) ==
    IF offsets = << >> THEN << >>
    ELSE MatchFinding(fs, curText, curTextStartOffset, Head(offsets), found, resolvedPath,
                      needsQuotes, isWindows)
         \o MatchFindings(fs, curText, curTextStartOffset, Tail(offsets), found, resolvedPath,
                          needsQuotes, isWindows)

\* lines 1159-1262: the findings on one path of interest
\* lines 1176-1185: the findings on the path that is the compilerPath
CompilerPathFindings(curPath, resolvedPath, fs, curText, curTextStartOffset, isWindows) ==
    IF isWindows /\ CompilerName(curPath) = "cl.exe" THEN << >>
    ELSE MatchFindings(fs, curText, curTextStartOffset, MatchOffsets(curText, curPath),
                       Located(fs, extractCompilerPathAndArgs(Trim(resolvedPath)).compilerPath,
                               TRUE, isWindows),
                       extractCompilerPathAndArgs(Trim(resolvedPath)).compilerPath,
                       compilerPathNeedsQuotes(Trim(resolvedPath)), isWindows)

ResolvedFindings(config, curPath, resolvedPath, fs, curText, curTextStartOffset, isWindows) ==
    IF resolvedPath = << >> THEN << >>
    ELSE IF curPath = config.compilerPath
    THEN CompilerPathFindings(curPath, resolvedPath, fs, curText, curTextStartOffset, isWindows)
    ELSE MatchFindings(fs, curText, curTextStartOffset, MatchOffsets(curText, curPath),
                       Located(fs, resolvedPath, FALSE, isWindows),
                       resolvedPath, FALSE, isWindows)

PathFindings(config, curPath, fs, curText, curTextStartOffset, isWindows) ==
    IF curPath = DefaultSentinel THEN << >>
    ELSE ResolvedFindings(config, curPath,
                          resolvePath(Some(Characters(curPath)), isWindows, << >>, << >>, << >>),
                          fs, curText, curTextStartOffset, isWindows)

RECURSIVE AllPathFindings(_, _, _, _, _, _)
AllPathFindings(config, paths, fs, curText, curTextStartOffset, isWindows) ==
    IF paths = << >> THEN << >>
    ELSE PathFindings(config, Head(paths), fs, curText, curTextStartOffset, isWindows)
         \o AllPathFindings(config, Tail(paths), fs, curText, curTextStartOffset, isWindows)

\* the findings of a pass on the text window curText
WindowFindings(config, fs, curText, curTextStartOffset, isWindows) ==
    ModeFindings(config, curText, curTextStartOffset, isWindows)
    \o AllPathFindings(config, PathsOfInterest(config), fs, curText, curTextStartOffset,
                       isWindows)

CountOf(findings, category) ==
    Cardinality({ i \in 1..Len(findings) : findings[i].category = category })
MetricsOf(findings) == [ c \in Categories |-> CountOf(findings, c) ]

Diagnostic(finding) ==
    [ range |-> finding.range, message |-> finding.message, severity |-> "Warning" ]
DiagnosticsOf(findings) == [ i \in 1..Len(findings) |-> Diagnostic(findings[i]) ]

\* prevSquiggleMetrics is a Map that is read and written as an object
\* (lines 1105-1106, 1277): a name that the pass did not store, and that a Map
\* inherits as a property, reads as a value that is not undefined and that
\* holds no counter.
InheritedProperties == { "constructor" }

\* this.prevSquiggleMetrics[name] after lines 1105-1107: None for a value
\* without counters
StoredMetrics(metrics, name) ==
    IF name \in DOMAIN metrics THEN Some(metrics[name])
    ELSE IF name \in InheritedProperties THEN None
    ELSE Some(ZeroMetrics)

\* lines 1275-1294: the categories whose count differs from the stored one;
\* a count differs from the undefined count of a value without counters
ChangedMetrics(new, prev) ==
    IF prev = None THEN Categories
    ELSE { c \in Categories : new[c] # Val(prev)[c] }

\* the outcome of a pass that ends before it sets the diagnostics
Ended(outcome, name, telemetry) ==
    [ outcome |-> outcome, name |-> name, findings |-> << >>, telemetry |-> telemetry ]

\* lines 1105-1295: the pass on an established text window
Completed(name, findings, prev) ==
    [ outcome |-> "completed", name |-> name, findings |-> findings,
      telemetry |-> IF ChangedMetrics(MetricsOf(findings), prev) = {} THEN << >>
                    ELSE << [ event |-> "ConfigSquiggles",
                              metrics |-> [ c \in ChangedMetrics(MetricsOf(findings), prev) |->
                                              MetricsOf(findings)[c] ] ] >> ]

\* lines 1094-1104
PassInWindow(config, text, configStart, window, metrics, fs, isWindows) ==
    IF window = None
    THEN Ended("aborted", config.name,
               << [ event |-> "ConfigSquiggles", error |-> "next config name not first" ] >>)
    ELSE Completed(config.name,
                   WindowFindings(config, fs, Val(window), OffsetAfterName(text, configStart),
                                  isWindows),
                   StoredMetrics(metrics, config.name))

\* lines 1082-1093
PassFrom(config, text, configStart, metrics, fs, isWindows) ==
    IF configStart = -1
    THEN Ended("aborted", config.name,
               << [ event |-> "ConfigSquiggles", error |-> "config name not first" ] >>)
    ELSE PassInWindow(config, text, configStart,
                      CutAtNextName(AfterName(text, configStart),
                                    SearchBeforeString(AfterName(text, configStart),
                                                       << Str("name"), Sign(":") >>)),
                      metrics, fs, isWindows)

\* lines 1069-1085: the callback on the document doc
SquigglePass(doc, index, metrics, fs, isWindows) ==
    IF ~doc.wellFormed THEN Ended("threw", Undefined, << >>)
    ELSE IF index < 0 \/ index >= Len(doc.blocks) THEN Ended("threw", Undefined, << >>)
    ELSE IF ScalarOf(doc.blocks[index + 1], "name") \in { Undefined, "" }
    THEN Ended("returned", Undefined, << >>)
    ELSE PassFrom(ParsedConfiguration(doc.blocks[index + 1]), getText(doc),
                  Search(getText(doc),
                         << Sign("{"), Str("name"), Sign(":"),
                            Str(ScalarOf(doc.blocks[index + 1], "name")) >>),
                  metrics, fs, isWindows)

\* lines 1269-1273
SetOrAppended(diagnostics, pass) ==
    IF pass.outcome # "completed" THEN diagnostics
    ELSE diagnostics \o DiagnosticsOf(pass.findings)

SetOrCleared(diagnostics, pass) ==
    IF pass.outcome # "completed" THEN diagnostics
    ELSE IF Len(pass.findings) # 0 THEN DiagnosticsOf(pass.findings)
    ELSE << >>

\* lines 1105-1107 and 1295
MetricsAfterAnyPass(metrics, pass) ==
    IF pass.name = Undefined THEN metrics
    ELSE [ n \in DOMAIN metrics \cup { pass.name } |->
             IF n = pass.name THEN MetricsOf(pass.findings) ELSE metrics[n] ]

MetricsAfter(metrics, pass) ==
    IF pass.outcome # "completed" THEN metrics
    ELSE [ n \in DOMAIN metrics \cup { pass.name } |->
             IF n = pass.name THEN MetricsOf(pass.findings) ELSE metrics[n] ]

PassRecord(pass) ==
    [ outcome |-> pass.outcome, name |-> pass.name, findings |-> pass.findings,
      telemetry |-> pass.telemetry, diagnosticsBefore |-> diagnosticCollection,
      metricsBefore |-> prevSquiggleMetrics,
      \* the callback ran right after another one, with no event in between
      followed |-> IsSome(squigglePass) ]

SquiggleCallbackWith(pass) ==
    /\ ApplyObject([ M EXCEPT !.pendingSquiggles = @ - 1,
                              !.diagnosticCollection = SetOrCleared(@, pass) ])
    /\ prevSquiggleMetrics' = MetricsAfter(prevSquiggleMetrics, pass)
    /\ squigglePass' = Some(PassRecord(pass))
    /\ UNCHANGED << document, pathsOnDisk >>

\* variant of SquiggleCallback: the pass is on the first configuration
SquiggleCallbackOnFirst ==
    /\ pendingSquiggles > 0
    /\ SquiggleCallbackWith(
           SquigglePass(document, 0, prevSquiggleMetrics,
                        HostDisk(pathsOnDisk, platform = "win32"), platform = "win32"))

\* the callback of openTextDocument(...).then (lines 1069-1296)
SquiggleCallback ==
    /\ pendingSquiggles > 0
    /\ SquiggleCallbackWith(
           SquigglePass(document, currentConfigurationIndex, prevSquiggleMetrics,
                        HostDisk(pathsOnDisk, platform = "win32"), platform = "win32"))

\* the user types in the editor: the text of the document changes and
\* onDidChangeTextDocument runs (lines 216-220)
TypeInDocument(doc) ==
    /\ document # doc
    /\ ApplyObject(handleConfigurationChange(M))
    /\ document' = doc
    /\ squigglePass' = None
    /\ UNCHANGED << prevSquiggleMetrics, pathsOnDisk >>

\* a path of interest is created, removed or replaced on disk
ChangeDisk(disk) ==
    /\ pathsOnDisk # disk
    /\ ApplyObject(M)
    /\ pathsOnDisk' = disk
    /\ squigglePass' = None
    /\ UNCHANGED << prevSquiggleMetrics, document >>

\* The errors the settings panel shows (getErrorsForConfigUI, lines 912-994).
\* A message is the pair of its text and the path it names.

\* lines 939-970: the errors on the compiler path without its arguments
CompilerPathExistenceErrors(fs, compilerPath, found) ==
    IF found = None THEN << << "Cannot find: ", compilerPath >> >>
    ELSE IF compilerPath = << >>
    THEN << << "Invalid input, cannot resolve compiler path", << >> >> >>
    ELSE IF ~checkFileExistsSync(fs, Val(found))
    THEN << << "Path is not a file: ", Val(found) >> >>
    ELSE << >>

\* lines 917-975
CompilerPathErrors(compilerPath, resolvedCompilerPath, fs, isWindows) ==
    IF \/ resolvedCompilerPath = << >>
       \/ isWindows /\ CompilerName(compilerPath) = "cl.exe"
    THEN << >>
    ELSE (IF /\ extractCompilerPathAndArgs(resolvedCompilerPath).additionalArgs
             /\ ~StartsWith(Trim(resolvedCompilerPath), << "\"" >>)
             /\ " " \in SeqToSet(extractCompilerPathAndArgs(resolvedCompilerPath).compilerPath)
          THEN << << "Compiler path with spaces and arguments is missing quotes", << >> >> >>
          ELSE << >>)
         \o CompilerPathExistenceErrors(
                fs, extractCompilerPathAndArgs(resolvedCompilerPath).compilerPath,
                Located(fs, extractCompilerPathAndArgs(resolvedCompilerPath).compilerPath,
                        TRUE, isWindows))

\* the argument of validatePath for an array and for a string of a configuration
ListInput(list) ==
    IF list = None THEN None
    ELSE Some([ isString |-> FALSE,
                paths |-> [ i \in 1..Len(Val(list)) |-> Characters(Val(list)[i]) ] ])
StringInput(string) ==
    IF string = Undefined THEN None
    ELSE Some([ isString |-> TRUE, paths |-> << Characters(string) >> ])

ErrorFields ==
    << "compilerPath", "includePath", "macFrameworkPath", "browsePath", "forcedInclude",
       "compileCommands", "databaseFilename", "intelliSenseMode" >>

\* lines 912-994: the errors of each field, in the order of ErrorFields
getErrorsForConfigUI(config, fs, isWindows) ==
    << JoinedOrUndefined(
           CompilerPathErrors(config.compilerPath,
                              resolvePath(StringCharacters(config.compilerPath), isWindows,
                                          << >>, << >>, << >>),
                              fs, isWindows)),
       validatePath(ListInput(config.includePath), TRUE, fs, isWindows, << >>, << >>, << >>),
       validatePath(ListInput(config.macFrameworkPath), TRUE, fs, isWindows,
                    << >>, << >>, << >>),
       validatePath(IF IsSome(config.browse) THEN ListInput(Val(config.browse).path) ELSE None,
                    TRUE, fs, isWindows, << >>, << >>, << >>),
       validatePath(ListInput(config.forcedInclude), FALSE, fs, isWindows, << >>, << >>, << >>),
       validatePath(StringInput(config.compileCommands), FALSE, fs, isWindows,
                    << >>, << >>, << >>),
       validatePath(IF IsSome(config.browse)
                    THEN StringInput(Val(config.browse).databaseFilename) ELSE None,
                    FALSE, fs, isWindows, << >>, << >>, << >>),
       IF isWindows /\ ~isCompilerIntelliSenseModeCompatible(config)
       THEN Some(<< << "IntelliSense mode is incompatible with compiler path",
                       config.intelliSenseMode >> >>)
       ELSE None >>

\* the settings panel asks for the errors of the configuration it shows
\* (line 696), after a pass on the document that the configuration was read
\* from
getErrorsForConfigUICall ==
    /\ IsSome(squigglePass)
    /\ Val(squigglePass).outcome = "completed"
    /\ HelperCall("getErrorsForConfigUI", << currentConfigurationIndex >>,
                  getErrorsForConfigUI(
                      ParsedConfiguration(document.blocks[currentConfigurationIndex + 1]),
                      HostDisk(pathsOnDisk, platform = "win32"), platform = "win32"))

\* the documents of the diagnostics specification
Document(blocks) == [ wellFormed |-> TRUE, blocks |-> blocks ]
NameMember(n) == Member("name", FALSE, << n >>)
SquiggleDocuments ==
    { [ wellFormed |-> FALSE, blocks |-> << >> ],
      \* one configuration, a directory, a missing path and a file
      Document(<< << NameMember("Linux"), Member("includePath", TRUE, << "/u", "x" >>),
                    Member("compileCommands", FALSE, << "r" >>) >> >>),
      \* one configuration with nothing to find when "/u" is a directory
      Document(<< << NameMember("Linux"), Member("includePath", TRUE, << "/u" >>) >> >>),
      \* two configurations
      Document(<< << NameMember("Linux"), Member("includePath", TRUE, << "x" >>) >>,
                  << NameMember("B"), Member("forcedInclude", TRUE, << "/u" >>),
                     Member("compilerPath", FALSE, << "C:/VC/bin/cl.exe" >>),
                     Member("intelliSenseMode", FALSE, << "gcc-x64" >>) >> >>),
      \* the name is not the first member of the first block
      Document(<< << Member("includePath", TRUE, << "x" >>), NameMember("Linux") >>,
                  << NameMember("B"), Member("includePath", TRUE, << "x" >>) >> >>),
      \* the name is not the first member of the second block
      Document(<< << NameMember("Linux"), Member("includePath", TRUE, << "x" >>) >>,
                  << Member("includePath", TRUE, << "/u" >>), NameMember("B") >> >>) }

SquiggleDisks ==
    { NothingOnDisk,
      [ f \in FsFiles |-> IF f = << "/", "u" >> THEN "directory" ELSE "none" ],
      [ f \in FsFiles |-> IF f = << "r" >> THEN "directory" ELSE "file" ] }

SquiggleFileTexts ==
    { JSONstringify(MakeDoc(<< "Linux", "B" >>, Undefined, Undefined, Some(configVersion), None)) }

InitSquiggles ==
    /\ InitWith(SquiggleFileTexts, { "linux", "win32" }, { -1 })
    /\ fsExistsSync(file)

NextSquiggles ==
    \/ SetCompilerDefaults(DetectedDefaults)
    \/ \E i \in 0..1 : select(i)
    \/ \E doc \in SquiggleDocuments : TypeInDocument(doc)
    \/ \E disk \in SquiggleDisks : ChangeDisk(disk)
    \/ SquiggleCallback

SpecSquiggles == InitSquiggles /\ [][NextSquiggles]_vars

\* The specification of the counters: passes over configurations of several
\* names, one of them a name that every object has as a property
MetricsDocuments ==
    { Document(<< << NameMember("Linux"), Member("includePath", TRUE, << "/u", "x" >>) >>,
                  << NameMember("B"), Member("includePath", TRUE, << "/u" >>) >> >>),
      Document(<< << NameMember("constructor"),
                    Member("includePath", TRUE, << "/u" >>) >> >>) }

NextMetrics ==
    \/ SetCompilerDefaults(DetectedDefaults)
    \/ \E i \in 0..1 : select(i)
    \/ \E doc \in MetricsDocuments : TypeInDocument(doc)
    \/ \E disk \in SquiggleDisks : ChangeDisk(disk)
    \/ SquiggleCallback

SpecMetrics == InitSquiggles /\ [][NextMetrics]_vars

\* The specification of the spans: strings that hold a path as one of several
\* fragments, strings that share a substring with a path, and configurations
\* of one name
SpanDocuments ==
    { Document(<< << NameMember("Linux"), Member("includePath", TRUE, << "x", "x;y" >>),
                    Member("macFrameworkPath", TRUE, << "xy", "/u" >>) >> >>),
      Document(<< << NameMember("Linux"), Member("includePath", TRUE, << "x" >>),
                    Member("forcedInclude", TRUE, << "x", "r" >>) >> >>),
      Document(<< << NameMember("Linux"), Member("includePath", TRUE, << "x" >>) >>,
                  << NameMember("Linux"), Member("includePath", TRUE, << "x", "r" >>) >> >>) }

NextSpans ==
    \/ SetCompilerDefaults(DetectedDefaults)
    \/ \E i \in 0..1 : select(i)
    \/ \E doc \in SpanDocuments : TypeInDocument(doc)
    \/ \E disk \in SquiggleDisks : ChangeDisk(disk)
    \/ SquiggleCallback

SpecSpans == InitSquiggles /\ [][NextSpans]_vars

\* The specification of the classification: paths of every member that holds
\* paths, a compiler path with and without arguments and quotes, and disks
\* that hold directories, files or nothing
ClassifyDocuments ==
    { Document(<< << NameMember("Linux"), Member("includePath", TRUE, << "/u", "x", "r" >>),
                    Member("forcedInclude", TRUE, << "/u" >>),
                    Member("compilerPath", FALSE, << "/m g -v" >>) >> >>),
      Document(<< << NameMember("Linux"), Member("browse", TRUE, << "/u", "r" >>),
                    Member("compileCommands", FALSE, << "r" >>),
                    Member("compilerPath", FALSE, << "C:/g" >>) >> >>),
      Document(<< << NameMember("Linux"), Member("includePath", TRUE, << "/m g -v" >>),
                    Member("forcedInclude", TRUE, << "/m g -v" >>),
                    Member("compilerPath", FALSE, << "/m g -v" >>) >> >>),
      Document(<< << NameMember("Linux"), Member("macFrameworkPath", TRUE, << "/u" >>),
                    Member("compilerPath", FALSE, << "\"/m g\" -v" >>) >> >>),
      Document(<< << NameMember("Linux"),
                    Member("includePath", TRUE, << "C:/VC/bin/cl.exe" >>),
                    Member("compilerPath", FALSE, << "C:/VC/bin/cl.exe" >>) >> >>) }

ClassifyFiles ==
    { << "/", "u" >>, << "r" >>, << "/", "m", " ", "g" >>,
      << "C", ":", "/", "g", ".", "e", "x", "e" >> }
ClassifyDisks ==
    { [ f \in ClassifyFiles |-> "none" ],
      [ f \in ClassifyFiles |-> "directory" ],
      [ f \in ClassifyFiles |-> "file" ],
      [ f \in ClassifyFiles |-> IF f = << "/", "u" >> THEN "directory" ELSE "file" ] }

NextClassify ==
    \/ SetCompilerDefaults(DetectedDefaults)
    \/ \E i \in 0..1 : select(i)
    \/ \E doc \in ClassifyDocuments : TypeInDocument(doc)
    \/ \E disk \in ClassifyDisks : ChangeDisk(disk)
    \/ SquiggleCallback
    \/ getErrorsForConfigUICall

SpecClassify == InitSquiggles /\ [][NextClassify]_vars

\* The tracking specification: the file exists from the start, the user opens
\* and closes it in an editor, and another program writes it
TrackTexts ==
    { JSONstringify(MakeDoc(ns, Undefined, Undefined, Some(configVersion), None)) :
        ns \in { << "Linux" >>, << "A" >>, << "Linux", "A" >> } }

InitTrack == InitWith(TrackTexts, { "linux" }, { -1 }) /\ fsExistsSync(file)

NextTrack ==
    \/ SetCompilerDefaults(DetectedDefaults)
    \/ EditorOpen
    \/ EditorClose
    \/ OnDidChange
    \/ OnDidChangeTextDocument
    \/ \E t \in TrackTexts : ExternalWrite(t)

SpecTrack == InitTrack /\ [][NextTrack]_vars

\* The watch specification: the compile_commands files of the configurations
\* change with the file, and the system grants fs.watch a varying number of
\* handles
SetWatchLimit(n) ==
    /\ watchLimit # n
    /\ Apply([ M EXCEPT !.watchLimit = n ])

InitWatch == InitWith(NotifyTexts, { "linux" }, { -1 }) /\ fsExistsSync(file)

NextWatch ==
    \/ SetCompilerDefaults(DetectedDefaults)
    \/ OnDidChange
    \/ ChangeSettings(NoSettings)
    \/ \E n \in 0..MaxConfigs : SetWatchLimit(n)
    \/ \E t \in NotifyTexts : ExternalWrite(t)

SpecWatch == InitWatch /\ [][NextWatch]_vars

\* The merge specification: documents whose configurations hold the sentinel
\* ${default}, workspace-root tokens, variables and lists of fragments, and
\* settings with and without default values
SentinelConfig(n) ==
    [ NamedConfig(n) EXCEPT
        !.includePath = Some(<< "x;y", DefaultSentinel >>),
        !.defines = Some(<< DefaultSentinel >>),
        !.forcedInclude = Some(<< DefaultSentinel, "f.h" >>),
        !.compilerPath = DefaultSentinel,
        !.cStandard = DefaultSentinel,
        !.browse = Some([ path |-> Some(<< DefaultSentinel >>),
                          limitSymbolsToIncludedHeaders |-> DefaultSentinel,
                          databaseFilename |-> DefaultSentinel ]) ]

MergeDoc(configurations, env) ==
    [ configurations |-> configurations, env |-> env, version |-> Some(configVersion),
      enableConfigurationSquiggles |-> Undefined ]

MergeTexts ==
    { JSONstringify(MergeDoc(
          << [ NamedConfig("Linux") EXCEPT !.includePath = Some(<< "a" >>) ],
             [ NamedConfig("A") EXCEPT
                   !.includePath = Some(<< "a", "${workspaceRoot}\\*" >>) ] >>, None)),
      JSONstringify(MergeDoc(
          << SentinelConfig("Linux"),
             [ NamedConfig("A") EXCEPT !.includePath = Some(<< "${workspaceFolder}/***" >>),
                                       !.intelliSenseMode = DefaultSentinel,
                                       !.compileCommands = DefaultSentinel ] >>, None)),
      JSONstringify(MergeDoc(
          << NamedConfig("Linux"),
             [ NamedConfig("A") EXCEPT !.includePath = Some(<< "${myVar}" >>) ] >>,
          Some([ k \in { "myVar" } |-> "${workspaceFolder}/**" ]))),
      JSONstringify(MergeDoc(
          << [ NamedConfig("A") EXCEPT
                   !.includePath = Some(<< >>),
                   !.browse = Some([ EmptyBrowse EXCEPT !.databaseFilename = "db" ]) ],
             SentinelConfig("B") >>, None)) }

MergeSettings ==
    { NoSettings,
      [ NoSettings EXCEPT !.defaultIncludePath = Some(<< "${workspaceFolder}" >>),
                          !.defaultDefines = Some(<< "D" >>),
                          !.defaultCompilerPath = "/s/cc" ],
      [ NoSettings EXCEPT !.defaultBrowsePath = Some(<< "b" >>),
                          !.defaultCStandard = "c99",
                          !.defaultLimitSymbolsToIncludedHeaders = "TRUE",
                          !.defaultForcedInclude = Some(<< "g.h" >>) ] }

InitMerge == InitWith(MergeTexts, { "linux" }, { -1 }) /\ fsExistsSync(file)

NextMerge ==
    \/ VcpkgScanDone(<< >>)
    \/ SetCompilerDefaults(DetectedDefaults)
    \/ OnDidChange
    \/ \E st \in MergeSettings : ChangeSettings(st)
    \/ \E t \in MergeTexts : ExternalWrite(t)

SpecMerge == InitMerge /\ [][NextMerge]_vars

----------------------------------------------------------------------------
\* The selection specification: the quick pick selects configurations and
\* its two edit entries, one edit command at a time, while other programs
\* rewrite and delete the file

SelectTexts ==
    { JSONstringify(MakeDoc(ns, Undefined, Undefined, Some(configVersion), None)) :
        ns \in { << "Linux" >>, << "A", "Linux" >> } }

\* the indexes picked: the configurations and the two entries after them
PickedIndexes == 0..(MaxConfigs + 1)

InitSelect == InitWith(SelectTexts, { "linux" }, { -1 })

NextSelect ==
    \/ SetCompilerDefaults(DetectedDefaults)
    \/ OnDidCreate
    \/ OnDidDelete
    \/ OnDidChange
    \/ \E i \in PickedIndexes : (IsEditEntry(i) => pendingEdits = << >>) /\ select(i)
    \/ \E k \in 1..MaxPendingEdits : FinishEdit(k)
    \/ \E t \in SelectTexts : ExternalWrite(t)
    \/ ExternalDelete

SpecSelect == InitSelect /\ [][NextSelect]_vars

----------------------------------------------------------------------------
\* Properties of a load (parsePropertiesFile), stated over the records of the
\* loads made by the last handler

FailedOutcomes == { "empty", "malformed", "noConfigurations" }

\* the positions of `names` that hold `name`, counted from 0
Matches(names, name) == { j \in 0..(Len(names) - 1) : names[j + 1] = name }

\* the platform-preferred index of a list of names: the first configuration
\* named after the platform, else the last one
PreferredIndex(names) ==
    IF Matches(names, PlatformName) # {} THEN Min(Matches(names, PlatformName))
    ELSE Len(names) - 1

\* C1: a load that finds an empty file, malformed JSON or a missing or empty
\* `configurations` list leaves the document, the index and the incomplete
\* flag as they were, and requests no squiggle pass.
C1_FailedLoadKeepsState ==
    \A i \in 1..Len(loads) :
        loads[i].outcome \in FailedOutcomes => loads[i].kept /\ ~loads[i].squiggles

\* each kind of failure happens while a complete document is held
C1_Witness ==
    \E i \in 1..Len(loads) :
        /\ loads[i].outcome = "noConfigurations"
        /\ loads[i].complete
        /\ loads[i].kept

\* C2: after a successful load the index is inside the new list, whatever
\* it was before.
C2_IndexInRangeAfterLoad ==
    \A i \in 1..Len(loads) :
        loads[i].outcome = "ok" =>
            loads[i].afterIndex >= 0 /\ loads[i].afterIndex < Len(loads[i].names)

\* a successful load that started with an index outside the new list
C2_Witness ==
    \E i \in 1..Len(loads) :
        /\ loads[i].outcome = "ok"
        /\ loads[i].beforeIndex >= Len(loads[i].names)
        /\ loads[i].afterIndex < Len(loads[i].names)

\* C3: whenever a document is held, the index names one of its
\* configurations.
C3_IndexAlwaysInRange ==
    IsSome(configurationJson) =>
        IndexInRange(currentConfigurationIndex, Val(configurationJson).configurations)

\* C7: a reload made while a complete document with a valid index is held
\* selects the first configuration of the new list that has the name of the
\* configuration selected before, when there is one.
C7_FirstNameMatchSelected ==
    \A i \in 1..Len(loads) :
        ( /\ loads[i].outcome = "ok"
          /\ loads[i].complete
          /\ Matches(loads[i].names, loads[i].beforeName) # {} )
        => loads[i].afterIndex = Min(Matches(loads[i].names, loads[i].beforeName))

\* the name occurs twice in the new list and the selection moves to the first
C7_Witness ==
    \E i \in 1..Len(loads) :
        /\ loads[i].outcome = "ok"
        /\ loads[i].complete
        /\ Cardinality(Matches(loads[i].names, loads[i].beforeName)) = 2
        /\ loads[i].beforeIndex = 1
        /\ loads[i].afterIndex = 0

\* C8 as stated: a reload that finds no configuration with the name selected
\* before selects the platform-preferred configuration.
C8_NoMatchSelectsPreferred ==
    \A i \in 1..Len(loads) :
        ( /\ loads[i].outcome = "ok"
          /\ loads[i].complete
          /\ Matches(loads[i].names, loads[i].beforeName) = {} )
        => loads[i].afterIndex = PreferredIndex(loads[i].names)

\* C8: a reload that finds no configuration with the name selected before
\* keeps the index when it is inside the new list, and selects the
\* platform-preferred configuration only when it is not.
C8_NoMatchKeepsIndexInRange ==
    \A i \in 1..Len(loads) :
        ( /\ loads[i].outcome = "ok"
          /\ loads[i].beforeName # Undefined
          /\ Matches(loads[i].names, loads[i].beforeName) = {} )
        => loads[i].afterIndex =
               IF loads[i].beforeIndex < Len(loads[i].names) THEN loads[i].beforeIndex
               ELSE PreferredIndex(loads[i].names)

\* no match, and the index that is kept is not the platform-preferred one
C8_Witness ==
    \E i \in 1..Len(loads) :
        /\ loads[i].outcome = "ok"
        /\ loads[i].complete
        /\ Matches(loads[i].names, loads[i].beforeName) = {}
        /\ loads[i].afterIndex = loads[i].beforeIndex
        /\ loads[i].afterIndex # PreferredIndex(loads[i].names)

----------------------------------------------------------------------------
\* Properties of the schema migration and of the env clean-up

\* C4: after every successful load the held document has version 4, whatever
\* version the text carried, and so has every held document, the fabricated
\* default document included.
C4_VersionIsCurrent ==
    /\ \A i \in 1..Len(loads) : loads[i].outcome = "ok" => loads[i].version = Some(4)
    /\ IsSome(configurationJson) => Val(configurationJson).version = Some(4)
    /\ getDefaultCppProperties.version = Some(4)

\* a text with a version other than absent, 2, 3 and 4 was loaded
C4_Witness ==
    \E i \in 1..Len(loads) :
        /\ loads[i].outcome = "ok"
        /\ loads[i].inVersion \notin { None, Some(2), Some(3), Some(4) }
        /\ loads[i].version = Some(4)

\* C5: the update steps run in sequence: from an absent version the steps
\* to 2, to 3 and to 4; from version 2 the steps to 3 and to 4; from version 3
\* the step to 4; a version-4 text runs no step, and is dirty (and written
\* back) only when a provider id was normalized.
C5_MigrationSequential ==
    \A i \in 1..Len(loads) :
        loads[i].outcome = "ok" =>
            /\ loads[i].inVersion = None => loads[i].steps = << 2, 3, 4 >>
            /\ loads[i].inVersion = Some(2) => loads[i].steps = << 3, 4 >>
            /\ loads[i].inVersion = Some(3) => loads[i].steps = << 4 >>
            /\ loads[i].inVersion = Some(4) =>
                   /\ loads[i].steps = << >>
                   /\ loads[i].dirty = loads[i].idChanged
                   /\ ~loads[i].idChanged => ~loads[i].wrote

\* a text without version was loaded and went through the three steps
C5_Witness ==
    \E i \in 1..Len(loads) :
        /\ loads[i].outcome = "ok"
        /\ loads[i].inVersion = None
        /\ loads[i].steps = << 2, 3, 4 >>
        /\ loads[i].wrote

\* the configurations of the text a load read
ParsedConfigurations(load) == Val(load.text.value).configurations

\* the fields of a configuration
Fields == DOMAIN NamedConfig("A")

KnownVersions == { None, Some(2), Some(3), Some(4) }

OptionFields ==
    { "knownCompilers", "includePath", "macFrameworkPath", "defines", "forcedInclude", "browse" }
HasValue(f, v) == IF f \in OptionFields THEN v # None ELSE v # Undefined

\* a load that ran update steps
Migrated(load) == load.outcome = "ok" /\ load.steps # << >>

\* C26 as stated: the update steps leave every field that has a value in the
\* parsed document, an empty string included, as it was.
C26_StepsKeepEveryValue ==
    \A i \in 1..Len(loads) :
        Migrated(loads[i]) =>
            \A k \in 1..Len(loads[i].configurations) :
                \A f \in Fields \ { "configurationProvider" } :
                    HasValue(f, ParsedConfigurations(loads[i])[k][f]) =>
                        loads[i].configurations[k][f] = ParsedConfigurations(loads[i])[k][f]

\* the standards are unset when they are empty
IsSet(f, v) ==
    IF f \in { "cStandard", "cppStandard" } THEN Truthy(v) ELSE HasValue(f, v)

\* C26, amended: the update steps leave every field that has a value in the
\* parsed document as it was, an empty string included, except cStandard and
\* cppStandard, which they leave as they were when they are not empty.
C26_StepsKeepEverySetValue ==
    \A i \in 1..Len(loads) :
        Migrated(loads[i]) =>
            \A k \in 1..Len(loads[i].configurations) :
                \A f \in Fields \ { "configurationProvider" } :
                    IsSet(f, ParsedConfigurations(loads[i])[k][f]) =>
                        loads[i].configurations[k][f] = ParsedConfigurations(loads[i])[k][f]

\* the three steps ran on a configuration named Mac that holds an empty
\* framework list, an empty compiler path and an empty mode, with the
\* detected defaults known and no default settings
C26_Witness ==
    \E i \in 1..Len(loads) :
        /\ loads[i].steps = << 2, 3, 4 >>
        /\ ParsedConfigurations(loads[i])[1].name = "Mac"
        /\ ParsedConfigurations(loads[i])[1].macFrameworkPath = Some(<< >>)
        /\ loads[i].configurations[1].macFrameworkPath = Some(<< >>)
        /\ loads[i].configurations[1].compilerPath = ""
        /\ loads[i].configurations[1].intelliSenseMode = ""
        /\ loads[i].configurations[1].cppStandard = "c++11"
        /\ loads[i].configurations[1].cStandard = "c11"
        /\ loads[i].configurations[2].cppStandard = "c++17"
        /\ IsSome(compilerDefaults)
        /\ settings = NoSettings

\* the mode of a configuration by its name, else by the platform
PlatformMode(name) ==
    IF name = "Linux" THEN "gcc-x64"
    ELSE IF name = "Mac" THEN "clang-x64"
    ELSE IF name = "Win32" THEN "msvc-x64"
    ELSE IF platform = "darwin" THEN "clang-x64"
    ELSE IF platform = "win32" THEN "msvc-x64"
    ELSE "gcc-x64"

Detected(field) == IF compilerDefaults = None THEN Null ELSE Val(compilerDefaults)[field]

\* C27: the step to version 4 assigns, in every configuration,
\* intelliSenseMode (the mode of the platform for the name) exactly when it is
\* absent and there is no default setting for it; compilerPath (the detected
\* one) exactly when it is absent, one was detected, there is no default
\* setting for it and the configuration has no compileCommands; cStandard and
\* cppStandard (the detected ones) exactly when they are unset, one was
\* detected and there is no default setting for them.
C27_LastStepAssignments ==
    \A i \in 1..Len(loads) :
        (loads[i].outcome = "ok" /\ 4 \in SeqToSet(loads[i].steps)) =>
            \A k \in 1..Len(loads[i].configurations) :
                /\ loads[i].configurations[k].intelliSenseMode =
                      IF ParsedConfigurations(loads[i])[k].intelliSenseMode = Undefined
                         /\ ~Truthy(settings.defaultIntelliSenseMode)
                      THEN PlatformMode(ParsedConfigurations(loads[i])[k].name)
                      ELSE ParsedConfigurations(loads[i])[k].intelliSenseMode
                /\ loads[i].configurations[k].compilerPath =
                      IF ParsedConfigurations(loads[i])[k].compilerPath = Undefined
                         /\ Truthy(Detected("compilerPath"))
                         /\ ~Truthy(settings.defaultCompilerPath)
                         /\ ~Truthy(ParsedConfigurations(loads[i])[k].compileCommands)
                      THEN Detected("compilerPath")
                      ELSE ParsedConfigurations(loads[i])[k].compilerPath
                /\ loads[i].configurations[k].cStandard =
                      IF ~Truthy(ParsedConfigurations(loads[i])[k].cStandard)
                         /\ Truthy(Detected("cStandard"))
                         /\ ~Truthy(settings.defaultCStandard)
                      THEN Detected("cStandard")
                      ELSE ParsedConfigurations(loads[i])[k].cStandard
                /\ loads[i].configurations[k].cppStandard =
                      IF ~Truthy(ParsedConfigurations(loads[i])[k].cppStandard)
                         /\ Truthy(Detected("cppStandard"))
                         /\ ~Truthy(settings.defaultCppStandard)
                      THEN Detected("cppStandard")
                      ELSE ParsedConfigurations(loads[i])[k].cppStandard

\* the step ran on a configuration with compileCommands and without
\* compilerPath while a compiler was detected and no default setting was set
C27_Witness ==
    \E i \in 1..Len(loads) :
        /\ loads[i].outcome = "ok"
        /\ 4 \in SeqToSet(loads[i].steps)
        /\ IsSome(compilerDefaults)
        /\ settings = NoSettings
        /\ Truthy(ParsedConfigurations(loads[i])[2].compileCommands)
        /\ loads[i].configurations[2].compilerPath = Undefined
        /\ loads[i].configurations[2].cStandard = "c11"
        /\ loads[i].configurations[2].intelliSenseMode = PlatformMode("A")

\* C6: right after a successful load none of workspaceRoot, workspaceFolder,
\* workspaceFolderBasename and default is a key of the held document's env.
C6_ReservedEnvRemoved ==
    \A i \in 1..Len(loads) :
        loads[i].outcome = "ok" =>
            loads[i].envKeys \cap { "workspaceRoot", "workspaceFolder",
                                    "workspaceFolderBasename", "default" } = {}

\* the text declared the four reserved names and one other name, which is kept
C6_Witness ==
    \E i \in 1..Len(loads) :
        /\ loads[i].outcome = "ok"
        /\ { "workspaceRoot", "workspaceFolder", "workspaceFolderBasename", "default" }
               \subseteq loads[i].inEnvKeys
        /\ loads[i].envKeys = { "myVar" }

----------------------------------------------------------------------------
\* Properties of the load-time write-back

\* C11 as stated: a successful load writes the document back exactly when the
\* text had a version other than 4, a provider id was normalized or a reserved
\* env name was stripped.
C11_WrittenIffCorrected ==
    \A i \in 1..Len(loads) :
        loads[i].outcome = "ok" =>
            ( loads[i].writeAttempts > 0 <=>
                  \/ loads[i].inVersion # Some(configVersion)
                  \/ loads[i].idChanged
                  \/ loads[i].inEnvKeys \cap ReservedEnvNames # {} )

\* C11: a successful load writes the document back exactly when the text had
\* a version other than 4 or a provider id was normalized; a write that
\* succeeds leaves the text of the held document in the file, and the
\* stripping of a reserved env name alone causes no write.
C11_WrittenIffVersionOrIdChanged ==
    \A i \in 1..Len(loads) :
        loads[i].outcome = "ok" =>
            /\ loads[i].writeAttempts =
                   IF loads[i].inVersion # Some(configVersion) \/ loads[i].idChanged
                   THEN 1 ELSE 0
            /\ loads[i].wrote => loads[i].fileHoldsDocument
            /\ loads[i].writeAttempts = 0 => ~loads[i].wrote

\* a version-4 text was written back because its provider id was normalized
C11_Witness ==
    \E i \in 1..Len(loads) :
        /\ loads[i].outcome = "ok"
        /\ loads[i].inVersion = Some(configVersion)
        /\ loads[i].idChanged
        /\ loads[i].writeAttempts = 1
        /\ loads[i].wrote
        /\ loads[i].fileHoldsDocument

\* C12: when the write-back of a load fails, no error leaves the load, the
\* held document has every correction (version 4, the fields set by the
\* update steps that ran, registered provider ids, no reserved env name), a
\* warning is shown, and the load called writeToJson once.
C12_WriteFailureKeptInMemory ==
    \A i \in 1..Len(loads) :
        ( loads[i].outcome = "ok" /\ loads[i].writeAttempts > 0 /\ ~loads[i].wrote ) =>
            /\ ~loads[i].threw
            /\ "writeFailed" \in loads[i].messages
            /\ loads[i].writeAttempts = 1
            /\ loads[i].version = Some(configVersion)
            /\ loads[i].envKeys \cap ReservedEnvNames = {}
            /\ \A k \in 1..Len(loads[i].configurations) :
                   LET c == loads[i].configurations[k]
                   IN /\ checkId(c.configurationProvider) = c.configurationProvider
                      /\ 4 \in SeqToSet(loads[i].steps) => c.intelliSenseMode # Undefined
                      /\ (3 \in SeqToSet(loads[i].steps) /\ c.name = "Mac")
                             => c.macFrameworkPath # None

\* a text without version, with a legacy provider id and reserved env names
\* was loaded from a read-only file
C12_Witness ==
    \E i \in 1..Len(loads) :
        /\ loads[i].outcome = "ok"
        /\ loads[i].inVersion = None
        /\ loads[i].idChanged
        /\ loads[i].inEnvKeys \cap ReservedEnvNames # {}
        /\ loads[i].writeAttempts = 1
        /\ ~loads[i].wrote
        /\ "writeFailed" \in loads[i].messages
        /\ loads[i].steps = << 2, 3, 4 >>

----------------------------------------------------------------------------
\* Properties of the edit commands, stated over the records of the writes
\* made by the last handler

\* the document holds what only a default-merge / resolution pass puts there
HasResolutionState(doc) ==
    \E k \in 1..Len(doc.configurations) :
        \/ doc.configurations[k].browse # None
        \/ doc.configurations[k].knownCompilers # None

\* the configurations of the text `cs` with the edit of the write record e
EditedConfigurations(cs, e) ==
    IF e.cmd = "addConfig" \/ (e.cmd = "saveUI" /\ e.index = Len(cs))
    THEN Append(cs, IF e.cmd = "saveUI" THEN e.arg
                    ELSE [ applyDefaultConfigurationValues(M, NamedConfig(e.arg))
                           EXCEPT !.knownCompilers = None ])
    ELSE [ cs EXCEPT ![e.index + 1] =
             IF e.cmd = "saveUI" THEN e.arg ELSE EditCurrent(e.cmd, e.arg, @) ]

\* C13: an edit command writes the document just parsed from the file with
\* the edit of the command and nothing else; what it writes never holds the
\* state a resolution pass left in memory (a browse object, knownCompilers),
\* also when the parse that opens the command fails.
C13_EditWritesParsedTextPlusEdit ==
    \A j \in 1..Len(writes) :
        writes[j].wrote =>
            /\ ~HasResolutionState(Val(writes[j].written.value))
            /\ writes[j].load.outcome = "ok" =>
                   Val(writes[j].written.value).configurations =
                       EditedConfigurations(Val(writes[j].load.text.value).configurations,
                                            writes[j])

\* C14: when two different edit commands were issued while no file existed
\* and both have run to their end, the file holds the edits of both.
C14_BothEditsOnFile ==
    ( /\ { "addToIncludePath", "setCompileCommands" } \subseteq ensured
      /\ pendingEdits = << >> ) =>
        /\ file.kind = "json"
        /\ \E k \in 1..Len(Val(file.value).configurations) :
               /\ Val(file.value).configurations[k].includePath # None
               /\ "p" \in SeqToSet(Val(Val(file.value).configurations[k].includePath))
        /\ \E k \in 1..Len(Val(file.value).configurations) :
               Val(file.value).configurations[k].compileCommands = "cc2.json"

----------------------------------------------------------------------------
\* Properties of the helpers, stated over the call made by the last action

\* the last action called the helper fn; its i-th argument and its result
Called(fn) == IsSome(call) /\ Val(call)[1] = fn
Arg(i) == Val(call)[2][i]
Out == Val(call)[3]

\* the fragments of one string: variables substituted, split at ";", empty
\* fragments dropped
Fragments(string, env) == SplitSemicolon(utilResolveVariables(string, env))

\* the list resolveAndSplit is to return for the entries `values`
RECURSIVE ResolvedList(_, _, _)
ResolvedList(values, defaultValue, env) ==
    IF values = << >> THEN << >>
    ELSE ( IF Head(values) = DefaultSentinel
           THEN IF defaultValue = None THEN << >>
                ELSE Flatten([ i \in 1..Len(Val(defaultValue)) |->
                                 Fragments(Val(defaultValue)[i], env) ])
           ELSE Fragments(Head(values), env) )
         \o ResolvedList(Tail(values), defaultValue, env)

\* C15: resolveAndSplit puts, for each entry in order, the fragments of the
\* entry, or for a ${default} entry the fragments of every default value
\* (none when the default is null or empty); ["${default}"] with ["a","b"]
\* gives ["a","b"], with [] gives [], and ["x;y","${default}"] with ["z"]
\* gives ["x","y","z"].
C15_ResolveListExpandsInPlace ==
    (Called("resolveAndSplit") /\ IsSome(Arg(1))) =>
        /\ Out = ResolvedList(Val(Arg(1)), Arg(2), Arg(3))
        /\ "" \notin SeqToSet(Out)
        /\ Arg(1) = Some(<< DefaultSentinel >>) =>
               /\ Arg(2) = Some(<< "a", "b" >>) => Out = << "a", "b" >>
               /\ Arg(2) \in { None, Some(<< >>) } => Out = << >>
        /\ (Arg(1) = Some(<< "x;y", DefaultSentinel >>) /\ Arg(2) = Some(<< "z" >>))
               => Out = << "x", "y", "z" >>

\* the third example of the statement
C15_Witness ==
    /\ Called("resolveAndSplit")
    /\ Arg(1) = Some(<< "x;y", DefaultSentinel >>)
    /\ Arg(2) = Some(<< "z" >>)
    /\ Out = << "x", "y", "z" >>

\* the path holds no placeholder and no glob: resolvePath only remaps it
PlainPath(path) ==
    SeqToSet(path) \cap { "${workspaceFolder}", "${workspaceRoot}", "${vcpkgRoot}",
                          "${default}", "${myVar}", "*" } = {}

\* the path has the form /mnt/<drive>/<rest>
IsMntForm(path) ==
    /\ Len(path) > 7
    /\ SubSeq(path, 1, 5) = << "/", "m", "n", "t", "/" >>
    /\ path[7] = "/"

\* the drive letter as the example of the statement writes it
UpperCase(c) == IF c = "c" THEN "C" ELSE IF c = "d" THEN "D" ELSE c

\* C16 as stated: on a Windows host a path /mnt/<drive>/<rest> becomes
\* <DRIVE>:/<rest> ("/mnt/c/foo" becomes "C:/foo") and any other path that
\* starts with "/" gets the root-filesystem prefix; otherwise the path is
\* not remapped.
C16_WslPathRemapped ==
    (Called("resolvePath") /\ IsSome(Arg(1)) /\ Val(Arg(1)) # << >> /\ PlainPath(Val(Arg(1)))) =>
        IF Arg(2) /\ IsMntForm(Val(Arg(1)))
        THEN Out = << UpperCase(Val(Arg(1))[6]), ":" >> \o SubSeq(Val(Arg(1)), 7, Len(Val(Arg(1))))
        ELSE IF Arg(2) /\ StartsWith(Val(Arg(1)), << "/" >>) /\ Arg(5) # << >>
        THEN Out = Arg(5) \o SubSeq(Val(Arg(1)), 2, Len(Val(Arg(1))))
        ELSE Out = Val(Arg(1))

\* C16: on a Windows host a path that starts with "/mnt/" and is longer than
\* "/mnt/c/" loses "/mnt/" and gets ":" after the next character, which is
\* kept as written ("/mnt/c/foo" becomes "c:/foo"); any other path that
\* starts with "/" has the "/" replaced by the root-filesystem prefix when
\* there is one; otherwise the path is not remapped.  A path that a variable
\* resolves to is remapped in the same way.
C16_WslPathRemappedAsWritten ==
    /\ (Called("resolvePath") /\ IsSome(Arg(1)) /\ Val(Arg(1)) # << >>
            /\ PlainPath(Val(Arg(1)))) =>
           IF Arg(2) /\ Len(Val(Arg(1))) > 7
                     /\ SubSeq(Val(Arg(1)), 1, 5) = << "/", "m", "n", "t", "/" >>
           THEN Out = << Val(Arg(1))[6], ":" >> \o SubSeq(Val(Arg(1)), 7, Len(Val(Arg(1))))
           ELSE IF Arg(2) /\ StartsWith(Val(Arg(1)), << "/" >>) /\ Arg(5) # << >>
           THEN Out = Arg(5) \o SubSeq(Val(Arg(1)), 2, Len(Val(Arg(1))))
           ELSE Out = Val(Arg(1))
    /\ (Called("resolvePath") /\ Arg(1) = Some(<< "${myVar}" >>)) =>
           Out = IF Arg(2) THEN << "d", ":", "/", "l", "i", "b" >>
                 ELSE << "/", "m", "n", "t", "/", "d", "/", "l", "i", "b" >>

\* the example of the statement on a Windows host
C16_Witness ==
    /\ Called("resolvePath")
    /\ Arg(1) = Some(<< "/", "m", "n", "t", "/", "c", "/", "f", "o", "o" >>)
    /\ Arg(2)
    /\ Out = << "c", ":", "/", "f", "o", "o" >>

\* exactly one of { the compiler is cl.exe, the mode is msvc-x64 } holds
ExactlyOneIsMsvc(compilerPath, intelliSenseMode) ==
    (CompilerName(compilerPath) = "cl.exe") # (intelliSenseMode = "msvc-x64")

\* C17 as stated: the result is false exactly when compilerPath and
\* intelliSenseMode are both neither absent nor "${default}" and exactly one
\* of { compiler is cl.exe, mode is msvc-x64 } holds.
C17_IncompatibleIffBothSetAndOneIsMsvc ==
    Called("isCompilerIntelliSenseModeCompatible") =>
        (Out = FALSE <=> /\ Arg(1) \notin { Undefined, DefaultSentinel }
                         /\ Arg(2) \notin { Undefined, DefaultSentinel }
                         /\ ExactlyOneIsMsvc(Arg(1), Arg(2)))

\* C17: the result is false exactly when compilerPath and intelliSenseMode
\* are both neither absent, empty nor "${default}" and exactly one of
\* { compiler is cl.exe, mode is msvc-x64 } holds; cl.exe with gcc-x64 is
\* incompatible, cl.exe with msvc-x64 is compatible.
C17_IncompatibleIffBothNonEmptyAndOneIsMsvc ==
    /\ Called("isCompilerIntelliSenseModeCompatible") =>
           (Out = FALSE <=> /\ Arg(1) \notin { Undefined, "", DefaultSentinel }
                            /\ Arg(2) \notin { Undefined, "", DefaultSentinel }
                            /\ ExactlyOneIsMsvc(Arg(1), Arg(2)))
    /\ (Called("isCompilerIntelliSenseModeCompatible") /\ Arg(1) = "C:/VC/bin/cl.exe") =>
           /\ Arg(2) = "gcc-x64" => Out = FALSE
           /\ Arg(2) = "msvc-x64" => Out = TRUE

\* cl.exe is checked against the gcc mode and found incompatible
C17_Witness ==
    /\ Called("isCompilerIntelliSenseModeCompatible")
    /\ Arg(1) = "C:/VC/bin/cl.exe"
    /\ Arg(2) = "gcc-x64"
    /\ Out = FALSE

\* validatePath was called on one path, given as a string
ValidatedOne == Called("validatePath") /\ IsSome(Arg(1)) /\ Val(Arg(1)).isString

\* what the one path resolves to, and the same path under the workspace root
OneResolved == resolvePath(Some(Val(Arg(1)).paths[1]), Arg(4), << >>, << >>, Arg(5))
OneRelative == WorkspaceRoot \o << PathSep(Arg(4)) >> \o OneResolved

\* where the path was found: as resolved, else under the workspace root
OneFoundAt ==
    IF KindAt(Arg(3), OneResolved) # "none" THEN Some(OneResolved)
    ELSE IF KindAt(Arg(3), OneRelative) # "none" THEN Some(OneRelative)
    ELSE None

ExpectedKind == IF Arg(2) THEN "directory" ELSE "file"

\* C18: a path that resolves to empty yields no error; a path found neither
\* as resolved nor relative to the workspace root yields exactly a "cannot
\* find" error; a path found yields a kind-mismatch error exactly when what
\* was found is not of the expected kind, else no error.
C18_ValidateOne ==
    ValidatedOne =>
        IF OneResolved = << >> THEN Out = None
        ELSE IF OneFoundAt = None
        THEN Out = Some(<< << "Cannot find: ", OneResolved >> >>)
        ELSE IF KindAt(Arg(3), Val(OneFoundAt)) = ExpectedKind THEN Out = None
        ELSE /\ IsSome(Out)
             /\ Len(Val(Out)) = 1
             /\ Val(Out)[1][2] = Val(OneFoundAt)
             /\ Val(Out)[1][1] = IF Arg(2) THEN "Path is not a directory: "
                                  ELSE "Path is not a file: "

\* a path missing as resolved is found under the workspace root, and is of
\* the wrong kind
C18_Witness ==
    /\ ValidatedOne
    /\ OneResolved # << >>
    /\ KindAt(Arg(3), OneResolved) = "none"
    /\ OneFoundAt = Some(OneRelative)
    /\ KindAt(Arg(3), OneRelative) # ExpectedKind
    /\ IsSome(Out)

\* validatePath was called on a list of paths
ValidatedList == Called("validatePath") /\ IsSome(Arg(1)) /\ ~Val(Arg(1)).isString
ListPaths == Val(Arg(1)).paths

\* where the path p of the list was found, and its error line, if any
ElementResolved(p) == resolvePath(Some(p), Arg(4), << >>, << >>, Arg(5))
ElementFoundAt(p) ==
    IF KindAt(Arg(3), ElementResolved(p)) # "none" THEN Some(ElementResolved(p))
    ELSE IF KindAt(Arg(3), WorkspaceRoot \o << PathSep(Arg(4)) >> \o ElementResolved(p)) # "none"
    THEN Some(WorkspaceRoot \o << PathSep(Arg(4)) >> \o ElementResolved(p))
    ELSE None
ElementLine(p) ==
    IF ElementResolved(p) = << >> THEN None
    ELSE IF ElementFoundAt(p) = None THEN Some(<< "Cannot find: ", ElementResolved(p) >>)
    ELSE IF KindAt(Arg(3), Val(ElementFoundAt(p))) = ExpectedKind THEN None
    ELSE Some(<< IF Arg(2) THEN "Path is not a directory: " ELSE "Path is not a file: ",
                 Val(ElementFoundAt(p)) >>)

\* the elements of the list that have an error, in the order of the list
FailingElements == SelectSeq(ListPaths, LAMBDA p : IsSome(ElementLine(p)))

\* C30 as stated: the result is none when no element has an error, else the
\* error lines of the elements, every distinct line once.
C30_DistinctLinesOnce ==
    ValidatedList =>
        IF FailingElements = << >> THEN Out = None
        ELSE /\ IsSome(Out)
             /\ SeqToSet(Val(Out)) = { Val(ElementLine(p)) : p \in SeqToSet(FailingElements) }
             /\ \A i, j \in 1..Len(Val(Out)) : Val(Out)[i] = Val(Out)[j] => i = j

\* C30, amended: the result is none when no element has an error, else the
\* error lines of the failing elements in the order of the list, one line
\* for every failing element, so that the line of a path that fails several
\* times appears as many times.
C30_OneLinePerFailingElement ==
    ValidatedList =>
        IF FailingElements = << >> THEN Out = None
        ELSE /\ IsSome(Out)
             /\ Len(Val(Out)) = Len(FailingElements)
             /\ \A i \in 1..Len(Val(Out)) : Val(Out)[i] = Val(ElementLine(FailingElements[i]))

\* the list holds one failing path twice, and the result holds its line twice
C30_Witness ==
    /\ ValidatedList
    /\ Len(ListPaths) = 2
    /\ ListPaths[1] = ListPaths[2]
    /\ IsSome(Out)
    /\ Len(Val(Out)) = 2
    /\ Val(Out)[1] = Val(Out)[2]

----------------------------------------------------------------------------
\* Properties of the diagnostics pass, stated over the record of the pass
\* run by the last action

PassRan == IsSome(squigglePass)
PassCompleted == PassRan /\ Val(squigglePass).outcome = "completed"

\* C19: after a completed pass the diagnostics of the document are exactly
\* the findings of that pass, in their order, whatever the diagnostics were
\* before; with no finding the diagnostics are empty.
C19_CompletedPassReplacesDiagnostics ==
    PassCompleted =>
        /\ Len(diagnosticCollection) = Len(Val(squigglePass).findings)
        /\ \A i \in 1..Len(diagnosticCollection) :
              /\ diagnosticCollection[i].range = Val(squigglePass).findings[i].range
              /\ diagnosticCollection[i].message = Val(squigglePass).findings[i].message
        /\ Val(squigglePass).findings = << >> => diagnosticCollection = << >>

\* a pass without findings has cleared the diagnostics of an earlier pass
C19_Witness ==
    /\ PassCompleted
    /\ Val(squigglePass).diagnosticsBefore # << >>
    /\ Val(squigglePass).findings = << >>
    /\ diagnosticCollection = << >>

\* the configuration the pass reads, when there is one with a name
PassReadsNamedConfiguration ==
    /\ PassRan
    /\ document.wellFormed
    /\ currentConfigurationIndex \in 0..(Len(document.blocks) - 1)
    /\ ScalarOf(document.blocks[currentConfigurationIndex + 1], "name") \notin { Undefined, "" }
PassName == ScalarOf(document.blocks[currentConfigurationIndex + 1], "name")

\* the blocks of the document whose first member is the name PassName
BlocksStartingWithName ==
    { k \in 1..Len(document.blocks) :
        /\ document.blocks[k][1].key = "name"
        /\ document.blocks[k][1].value[1] = PassName }

\* the block after the first block that starts with the name has a name
\* that is not its first member
NextBoundaryAmbiguous ==
    /\ BlocksStartingWithName # {}
    /\ Min(BlocksStartingWithName) < Len(document.blocks)
    /\ HasMember(document.blocks[Min(BlocksStartingWithName) + 1], "name")
    /\ document.blocks[Min(BlocksStartingWithName) + 1][1].key # "name"

\* C20: a pass that finds the name of the current configuration as the
\* first key of no block, or that finds the next configuration not to start
\* with its name, ends without an error, reports the anomaly to telemetry and
\* leaves the diagnostics and the counters of every configuration as they were.
C20_AbortedPassChangesNothing ==
    (PassReadsNamedConfiguration /\ (BlocksStartingWithName = {} \/ NextBoundaryAmbiguous)) =>
        /\ Val(squigglePass).outcome = "aborted"
        /\ Len(Val(squigglePass).telemetry) = 1
        /\ diagnosticCollection = Val(squigglePass).diagnosticsBefore
        /\ prevSquiggleMetrics = Val(squigglePass).metricsBefore

\* a pass is aborted at the next boundary while diagnostics of an earlier
\* pass are shown
C20_Witness ==
    /\ PassReadsNamedConfiguration
    /\ NextBoundaryAmbiguous
    /\ Val(squigglePass).outcome = "aborted"
    /\ Val(squigglePass).diagnosticsBefore # << >>
    /\ PassName \notin DOMAIN Val(squigglePass).metricsBefore

\* the categories the pass reported to telemetry
ReportedCategories ==
    IF Val(squigglePass).telemetry = << >> THEN {}
    ELSE DOMAIN Val(squigglePass).telemetry[1].metrics

\* the count stored for the name of the pass by the previous completed
\* pass, zero when there was none
PreviousCount(c) ==
    IF Val(squigglePass).name \in DOMAIN Val(squigglePass).metricsBefore
    THEN Val(squigglePass).metricsBefore[Val(squigglePass).name][c]
    ELSE 0

\* C21: a completed pass reports exactly the categories whose count differs
\* from the count stored by the previous completed pass for the same name
\* (zero at first), each with its new count, and stores the new counts; a
\* pass that counts what was stored reports nothing.
C21_ReportsExactlyChangedCounts ==
    PassCompleted =>
        /\ ReportedCategories =
              { c \in Categories : MetricsOf(Val(squigglePass).findings)[c] # PreviousCount(c) }
        /\ \A c \in ReportedCategories :
              Val(squigglePass).telemetry[1].metrics[c] = MetricsOf(Val(squigglePass).findings)[c]
        /\ prevSquiggleMetrics[Val(squigglePass).name] = MetricsOf(Val(squigglePass).findings)

\* the configuration the pass reads and the text of the document
PassConfiguration == ParsedConfiguration(document.blocks[currentConfigurationIndex + 1])
PassText == getText(document)

\* the offset of the opening brace of block k in the text, and the offset
\* after its closing brace
RECURSIVE BlockStart(_)
BlockStart(k) ==
    IF k = 1 THEN 4
    ELSE BlockStart(k - 1) + Len(BlockTokens(document.blocks[k - 1])) + 1
BlockEnd(k) == BlockStart(k) + Len(BlockTokens(document.blocks[k]))

\* the text the pass scans: from the name of the first block that starts
\* with the name of the configuration to the next block, or to the end of
\* the text
ScannedOffsets ==
    IF Min(BlocksStartingWithName) < Len(document.blocks)
    THEN (BlockStart(Min(BlocksStartingWithName)) + 3)
           ..(BlockStart(Min(BlocksStartingWithName) + 1) - 1)
    ELSE (BlockStart(Min(BlocksStartingWithName)) + 3)..(Len(PassText) - 1)

\* the includePath entries of the configuration that the pass looks for and
\* finds nowhere on disk
MissingIncludePaths ==
    IF ~IsSome(PassConfiguration.includePath) THEN {}
    ELSE { p \in SeqToSet(Val(PassConfiguration.includePath)) :
             /\ p # DefaultSentinel
             /\ p # PassConfiguration.compilerPath
             /\ resolvePath(Some(Characters(p)), platform = "win32", << >>, << >>, << >>) # << >>
             /\ Located(HostDisk(pathsOnDisk, platform = "win32"),
                        resolvePath(Some(Characters(p)), platform = "win32",
                                    << >>, << >>, << >>),
                        FALSE, platform = "win32") = None }

CannotFind(p) ==
    << "Cannot find",
       NormalizeSeparators(resolvePath(Some(Characters(p)), platform = "win32",
                                       << >>, << >>, << >>),
                           platform = "win32") >>

\* the findings of the pass that say that p cannot be found
CannotFindFindings(p) ==
    { j \in 1..Len(Val(squigglePass).findings) :
        /\ Val(squigglePass).findings[j].category = "PathNonExistent"
        /\ Val(squigglePass).findings[j].message = CannotFind(p) }

\* the strings of the scanned text that hold p between quotes or semicolons
StringsHolding(p) ==
    { i \in ScannedOffsets :
        /\ PassText[i + 1].quoted
        /\ p \in SeqToSet(SplitSemicolon(PassText[i + 1].v)) \cup { PassText[i + 1].v } }

\* C22 as stated: an includePath entry that is nowhere on disk has exactly
\* one "cannot find" diagnostic, and the span of the diagnostic is a string
\* that holds the path and nothing else.
C22_OneDiagnosticOnThePathOnly ==
    PassCompleted =>
        \A p \in MissingIncludePaths :
            /\ Cardinality(CannotFindFindings(p)) = 1
            /\ \A j \in CannotFindFindings(p) :
                  PassText[Val(squigglePass).findings[j].range[1] + 1].v = p

\* C22, amended: an includePath entry that is nowhere on disk has one
\* "cannot find" diagnostic for each string of the scanned text that holds the
\* path between quotes or semicolons, the span of the diagnostic is that
\* whole string with its other fragments, and a string that only shares a
\* substring with the path has none.
C22_OneDiagnosticPerStringHoldingThePath ==
    PassCompleted =>
        \A p \in MissingIncludePaths :
            /\ \A i \in StringsHolding(p) :
                  Cardinality({ j \in CannotFindFindings(p) :
                                  Val(squigglePass).findings[j].range = << i, i + 1 >> }) = 1
            /\ \A j \in CannotFindFindings(p) :
                  Val(squigglePass).findings[j].range[1] \in StringsHolding(p)

\* the path "x" is found in its own string, in a string with a second
\* fragment and not in the string "xy"
C22_Witness ==
    /\ PassCompleted
    /\ "x" \in MissingIncludePaths
    /\ Cardinality(CannotFindFindings("x")) = 2
    /\ \E j \in CannotFindFindings("x") :
          PassText[Val(squigglePass).findings[j].range[1] + 1].v = "x;y"
    /\ \E i \in ScannedOffsets : PassText[i + 1] = Str("xy")

\* C23: the range of every diagnostic of a pass lies in the block of the
\* configuration at the current index.
C23_DiagnosticsInsideCurrentBlock ==
    PassCompleted =>
        \A j \in 1..Len(diagnosticCollection) :
            /\ diagnosticCollection[j].range[1] >= BlockStart(currentConfigurationIndex + 1)
            /\ diagnosticCollection[j].range[2] <= BlockEnd(currentConfigurationIndex + 1)

----------------------------------------------------------------------------
\* Properties of the creation of the file, stated over the return of
\* ensurePropertiesFile observed in the last action

EnsureReturns == Called("ensurePropertiesFile")

\* the paths the pass looks for in the scanned text
PassResolved(p) ==
    resolvePath(Some(Characters(p)), platform = "win32", << >>, << >>, << >>)
IsPassCompilerPath(p) == p = PassConfiguration.compilerPath
ScannedPaths ==
    { p \in SeqToSet(PathsOfInterest(PassConfiguration)) :
        /\ p # DefaultSentinel
        /\ PassResolved(p) # << >>
        /\ ~(IsPassCompilerPath(p) /\ platform = "win32" /\ CompilerName(p) = "cl.exe") }

\* the path that is looked up on disk: the compiler path without its
\* arguments and quotes
CheckedPath(p) ==
    IF IsPassCompilerPath(p)
    THEN extractCompilerPathAndArgs(Trim(PassResolved(p))).compilerPath
    ELSE PassResolved(p)
PathFoundAt(p) ==
    Located(HostDisk(pathsOnDisk, platform = "win32"), CheckedPath(p),
            IsPassCompilerPath(p), platform = "win32")
MissingQuotes(p) == IsPassCompilerPath(p) /\ compilerPathNeedsQuotes(Trim(PassResolved(p)))

\* the key of the member that the string at offset i of the text is a value of
KeyOf(text, i) ==
    text[CHOOSE j \in 1..i :
             /\ text[j].quoted /\ text[j + 1] = Sign(":")
             /\ \A k \in (j + 1)..i : ~(text[k].quoted /\ text[k + 1] = Sign(":"))].v
InFileKey(text, i) ==
    KeyOf(text, i) \in { "forcedInclude", "compileCommands", "compilerPath" }

\* the category of an occurrence of p, in a value of a key of files or
\* elsewhere; "none" for an occurrence that passes its checks
OccurrenceCategory(p, inFileKey) ==
    IF PathFoundAt(p) = None THEN "PathNonExistent"
    ELSE IF inFileKey
    THEN IF MissingQuotes(p) THEN "CompilerPathMissingQuotes"
         ELSE IF KindAt(HostDisk(pathsOnDisk, platform = "win32"),
                        NormalizeSeparators(Val(PathFoundAt(p)), platform = "win32")) # "file"
         THEN "PathNotAFile"
         ELSE "none"
    ELSE IF KindAt(HostDisk(pathsOnDisk, platform = "win32"),
                   NormalizeSeparators(Val(PathFoundAt(p)), platform = "win32")) # "directory"
    THEN "PathNotADirectory"
    ELSE "none"
OccurrenceCategories ==
    [ p \in ScannedPaths |-> [ inFileKey \in BOOLEAN |-> OccurrenceCategory(p, inFileKey) ] ]

PathCategories ==
    { "PathNonExistent", "PathNotAFile", "PathNotADirectory", "CompilerPathMissingQuotes" }

\* the category that the message of a diagnostic belongs to
MessageCategory(message) ==
    IF message[1] = "Cannot find" THEN "PathNonExistent"
    ELSE IF message[1] = "Path is not a file" THEN "PathNotAFile"
    ELSE IF message[1] = "Path is not a directory" THEN "PathNotADirectory"
    ELSE IF message[1] = "Compiler path with spaces and arguments is missing quotes"
    THEN "CompilerPathMissingQuotes"
    ELSE "CompilerModeMismatch"

\* the string at offset i of the text holds p between quotes or semicolons
Holds(text, i, p) ==
    /\ text[i + 1].quoted
    /\ p \in SeqToSet(SplitSemicolon(text[i + 1].v)) \cup { text[i + 1].v }

\* the diagnostics on the string at offset i are those of the occurrences in it
ClassifiedAt(text, i, categories) ==
    \A c \in PathCategories :
        Cardinality({ j \in 1..Len(diagnosticCollection) :
                        /\ diagnosticCollection[j].range = << i, i + 1 >>
                        /\ MessageCategory(diagnosticCollection[j].message) = c })
          = Cardinality({ p \in DOMAIN categories :
                            Holds(text, i, p) /\ categories[p][InFileKey(text, i)] = c })

ClassifiedIn(text, offsets, categories) ==
    \A i \in offsets : ClassifiedAt(text, i, categories)

PathFields ==
    { << "includePath", 2 >>, << "macFrameworkPath", 3 >>, << "path", 4 >>,
      << "forcedInclude", 5 >>, << "compileCommands", 6 >>, << "compilerPath", 1 >> }

\* the paths of a field of the configuration of the pass
FieldPaths(key) ==
    IF key = "compilerPath" THEN { PassConfiguration.compilerPath } \ { Undefined }
    ELSE IF key = "compileCommands" THEN { PassConfiguration.compileCommands } \ { Undefined }
    ELSE IF key = "includePath" /\ IsSome(PassConfiguration.includePath)
    THEN SeqToSet(Val(PassConfiguration.includePath))
    ELSE IF key = "macFrameworkPath" /\ IsSome(PassConfiguration.macFrameworkPath)
    THEN SeqToSet(Val(PassConfiguration.macFrameworkPath))
    ELSE IF key = "forcedInclude" /\ IsSome(PassConfiguration.forcedInclude)
    THEN SeqToSet(Val(PassConfiguration.forcedInclude))
    ELSE IF /\ key = "path" /\ IsSome(PassConfiguration.browse)
            /\ IsSome(Val(PassConfiguration.browse).path)
    THEN SeqToSet(Val(Val(PassConfiguration.browse).path))
    ELSE {}

\* the kind of an error of the settings panel
ErrorKind(message) ==
    IF message[1] = "Cannot find: " THEN "PathNonExistent"
    ELSE IF message[1] = "Path is not a file: " THEN "PathNotAFile"
    ELSE IF message[1] = "Path is not a directory: " THEN "PathNotADirectory"
    ELSE IF message[1] = "Compiler path with spaces and arguments is missing quotes"
    THEN "CompilerPathMissingQuotes"
    ELSE "other"

\* the paths that an error on the path p of a field may name: the resolved
\* path (of the compiler, without its arguments), the path with .exe added
\* and the path below the root of the workspace
NamesOf(key, resolved) ==
    { resolved, ExeAdded(resolved),
      WorkspaceRoot \o << PathSep(platform = "win32") >> \o resolved }
ErrorNames(key, p) ==
    IF key = "compilerPath"
    THEN NamesOf(key, extractCompilerPathAndArgs(PassResolved(p)).compilerPath)
    ELSE NamesOf(key, PassResolved(p))

\* the settings panel shows an error of the kind on the path p of the field
PanelReports(errors, key, p, kind) ==
    /\ IsSome(errors)
    /\ \E k \in 1..Len(Val(errors)) :
          /\ ErrorKind(Val(errors)[k]) = kind
          /\ kind = "CompilerPathMissingQuotes" \/ Val(errors)[k][2] \in ErrorNames(key, p)

\* the pass has a diagnostic of the kind on an occurrence of p in the field
PassReports(text, key, p, kind) ==
    \E j \in 1..Len(diagnosticCollection) :
        /\ MessageCategory(diagnosticCollection[j].message) = kind
        /\ Holds(text, diagnosticCollection[j].range[1], p)
        /\ KeyOf(text, diagnosticCollection[j].range[1]) = key

AgreeOn(text, field) ==
    \A p \in FieldPaths(field[1]) : \A kind \in PathCategories :
        PassReports(text, field[1], p, kind) <=> PanelReports(Out[field[2]], field[1], p, kind)

\* C29: for the configuration of a completed pass and every path of its
\* includePath, macFrameworkPath, forcedInclude, browse.path, compileCommands
\* and compilerPath, the pass has a diagnostic of a kind (cannot find, not a
\* file, not a directory, missing quotes) on the path in the field if and
\* only if getErrorsForConfigUI has an error of that kind on the path in the
\* field.
C29_PassAndPanelAgree ==
    (PassCompleted /\ Called("getErrorsForConfigUI")) =>
        \A field \in PathFields : AgreeOn(PassText, field)

\* C24: the text ensurePropertiesFile hands to the write holds no
\* knownCompilers for the first configuration, and when it returns the
\* knownCompilers of that configuration in memory is the value it had before
\* the write, whether the write succeeded or failed.
C24_KnownCompilersRoundTripped ==
    EnsureReturns =>
        /\ Val(Arg(2).value).configurations[1].knownCompilers = None
        /\ Out = Arg(1)

----------------------------------------------------------------------------
\* Properties of the notifications, stated over the events fired by the last
\* handler

\* C9: a configurations-changed notification is emitted only after the
\* compiler defaults were delivered, and never while the document is marked
\* incomplete.
C9_NotifiedOnlyAfterDefaults ==
    \A j \in 1..Len(fired) :
        fired[j].event = "configurationsChanged" =>
            fired[j].defaultsDelivered /\ ~fired[j].incomplete

ObjectState ==
    << propertiesFile, configurationJson, currentConfigurationIndex, configurationIncomplete,
       compileCommandFileWatchers, file, diagnosticCollection, pendingSquiggles >>

\* the document held in memory is the one the file holds
HoldsFileContent ==
    /\ IsSome(configurationJson)
    /\ file.kind = "json"
    /\ [ k \in 1..Len(Configurations(M)) |-> Configurations(M)[k].name ]
         = [ k \in 1..Len(Val(file.value).configurations) |->
               Val(file.value).configurations[k].name ]

\* C31: the handler of a change event of the file watcher does nothing when
\* the file is a document of the editor, and reloads the file at once when it
\* is not; the handler of a change of the text document reloads the file.
C31_TrackedChangeWaitsForTextChange ==
    [][ /\ ("change" \in pendingEvents /\ "change" \notin pendingEvents' /\ tracked)
            => (loads' = << >> /\ fired' = << >> /\ ObjectState' = ObjectState)
        /\ ("change" \in pendingEvents /\ "change" \notin pendingEvents' /\ ~tracked)
            => (Len(loads') = 1 /\ loads'[1].text = file /\ HoldsFileContent')
        /\ ("textChange" \in pendingEvents /\ "textChange" \notin pendingEvents')
            => (Len(loads') = 1 /\ loads'[1].text = file /\ HoldsFileContent') ]_vars

\* the change event of a tracked file was handled and the document in memory
\* is still the one of before the change: the text change is yet to come
C31_Witness ==
    /\ tracked
    /\ compilerDefaults # None
    /\ "change" \notin pendingEvents
    /\ "textChange" \in pendingEvents
    /\ IsSome(configurationJson)
    /\ ~HoldsFileContent

\* the compileCommands of the configurations that exist on disk
ExistingCompileCommands ==
    { Configurations(M)[k].compileCommands : k \in 1..Len(Configurations(M)) }
        \cap ExistingPaths

\* the handles that are open are those of the list: what an earlier call
\* registered is closed
EarlierHandlesClosed == openWatches = compileCommandFileWatchers

\* the handler that updated the watchers went on to its end
FailureNotPropagated ==
    ~configurationIncomplete =>
        (fired # << >> /\ fired[Len(fired)].event = "configurationsChanged")

LatestPass ==
    SquigglePass(document, currentConfigurationIndex, prevSquiggleMetrics,
                 HostDisk(pathsOnDisk, platform = "win32"), platform = "win32")

\* what a single pass leaves in the diagnostics that held `before`
SinglePassOn(before, pass) ==
    IF pass.outcome = "completed" THEN DiagnosticsOf(pass.findings) ELSE before

MergedFromFile ==
    /\ loads # << >>
    /\ loads[Len(loads)].outcome = "ok"
    /\ loads[Len(loads)].text = file
    /\ IsSome(configurationJson)
    /\ Len(Configurations(M)) = Len(Val(file.value).configurations)

FileConfiguration(k) == Val(file.value).configurations[k]
FileBrowsePathAbsent(k) ==
    FileConfiguration(k).browse = None \/ Val(FileConfiguration(k).browse).path = None

HasWorkspaceRootToken(list) == \E i \in 1..Len(list) : IsWorkspaceRootToken(list[i])

\* C34: after a merge, a configuration that had no browse.path, with no
\* default browse path in the settings, has as browse.path its resolved
\* includePath, followed by ${workspaceFolder} if and only if no entry of the
\* includePath is a workspace-root token; the includePath of a configuration
\* that is not the current one is the resolved list of the file and nothing
\* more.
C34_BrowsePathFallsBackToIncludePath ==
    MergedFromFile =>
        \A k \in 1..Len(Configurations(M)) :
            ( /\ FileBrowsePathAbsent(k)
              /\ settings.defaultBrowsePath = None
              /\ IsSome(Configurations(M)[k].includePath) ) =>
                /\ Val(Configurations(M)[k].browse).path =
                     Some(IF HasWorkspaceRootToken(Val(Configurations(M)[k].includePath))
                          THEN Val(Configurations(M)[k].includePath)
                          ELSE Append(Val(Configurations(M)[k].includePath),
                                      "${workspaceFolder}"))
                /\ k # currentConfigurationIndex + 1 =>
                     Configurations(M)[k].includePath =
                         updateConfigurationList(FileConfiguration(k).includePath,
                                                 settings.defaultIncludePath,
                                                 ExtendedEnvironment(M))

\* a merge that added ${workspaceFolder} to the list of one configuration and
\* copied the list of another, which holds a token, as it is
C34_Witness ==
    /\ MergedFromFile
    /\ settings.defaultBrowsePath = None
    /\ Len(Configurations(M)) = 2
    /\ \A k \in 1..2 : FileBrowsePathAbsent(k) /\ IsSome(Configurations(M)[k].includePath)
    /\ \E k \in 1..2 : HasWorkspaceRootToken(Val(Configurations(M)[k].includePath))
    /\ \E k \in 1..2 :
          /\ ~HasWorkspaceRootToken(Val(Configurations(M)[k].includePath))
          /\ Val(Configurations(M)[k].browse).path =
               Some(Append(Val(Configurations(M)[k].includePath), "${workspaceFolder}"))

\* the fields of a configuration that take a default value
DefaultedScalars(c) ==
    { c.compilerPath, c.cStandard, c.cppStandard, c.windowsSdkVersion, c.intelliSenseMode,
      c.compileCommands, c.configurationProvider }
    \cup (IF c.browse = None THEN {}
          ELSE { Val(c.browse).limitSymbolsToIncludedHeaders, Val(c.browse).databaseFilename })
DefaultedLists(c) ==
    { c.includePath, c.defines, c.macFrameworkPath, c.forcedInclude }
    \cup (IF c.browse = None THEN {} ELSE { Val(c.browse).path })

HoldsSentinel(c) ==
    \/ DefaultSentinel \in DefaultedScalars(c)
    \/ \E list \in DefaultedLists(c) : IsSome(list) /\ DefaultSentinel \in SeqToSet(Val(list))

DeletionHandled ==
    \/ "delete" \in pendingEvents /\ "delete" \notin pendingEvents'
    \/ /\ propertiesFile = "uri" /\ propertiesFile' = "null"
       /\ compilerDefaults' = compilerDefaults

\* what the pipeline makes of the fabricated document when nothing of the
\* object's document and selection is known
FromNoDocument ==
    handleConfigurationChange(resetToDefaultSettings(
        [ M EXCEPT !.propertiesFile = "null", !.configurationJson = None,
                   !.currentConfigurationIndex = -1 ], TRUE))

\* C36: handling the deletion of the file leaves a document of exactly one
\* configuration, named for the host platform, at version 4, selects index 0,
\* keeps nothing of the previous document, and reads no file.
C36_DeleteReplacesDocument ==
    [][ DeletionHandled =>
          /\ propertiesFile' = "null"
          /\ IsSome(configurationJson')
          /\ Len(Val(configurationJson').configurations) = 1
          /\ Val(configurationJson').configurations[1].name = PlatformName
          /\ Val(configurationJson').version = Some(configVersion)
          /\ currentConfigurationIndex' = 0
          /\ configurationJson' = FromNoDocument.configurationJson
          /\ loads' = << >> ]_vars

\* on a host where the file's second configuration gets selected, the file is
\* gone, its deletion has been handled and the fabricated document is in memory
C36_Witness ==
    /\ platform = "linux"
    /\ propertiesFile = "null"
    /\ ~fsExistsSync(file)
    /\ "delete" \notin pendingEvents
    /\ IsSome(configurationJson)
    /\ Len(Configurations(M)) = 1
    /\ Configurations(M)[1].name = "Linux"
    /\ currentConfigurationIndex = 0
    /\ loads = << >>


\* the last load of the handler that just ran wrote the document back, so the
\* file holds the text of that write
WrittenBack == loads # << >> /\ loads[Len(loads)].wrote

\* again is the object after one more load: the load succeeded, found nothing
\* to correct and left the file alone
LoadedClean(again) ==
    /\ again.ret = "true"
    /\ ~again.dirty
    /\ again.writeAttempts = 0
    /\ again.file = file

\* C37: the text of a successful load-time write-back, loaded again, is not
\* dirty and is not written; one load writes at most once.
C37_WriteBackIsLoadedClean ==
    /\ \A i \in 1..Len(loads) : loads[i].writeAttempts <= 1
    /\ WrittenBack => LoadedClean(parsePropertiesFile(M))

\* a text of an old version with a legacy provider id and reserved names in
\* env was written back, and the change event of that write is pending
C37_Witness ==
    /\ WrittenBack
    /\ loads[Len(loads)].inVersion = None
    /\ loads[Len(loads)].idChanged
    /\ loads[Len(loads)].inEnvKeys # loads[Len(loads)].envKeys
    /\ "change" \in pendingEvents


SelectionEvents(events) ==
    { k \in 1..Len(events) : events[k].event = "selectionChanged" }

\* the original reading: whatever changes the index fires selectionChanged
\* with the new index
C38_EveryIndexChangeAnnounced ==
    [][ currentConfigurationIndex' # currentConfigurationIndex =>
            \E k \in SelectionEvents(fired') : fired'[k].index = currentConfigurationIndex' ]_vars

\* C38: select(index) for an index other than the two edit entries sets the
\* index and fires selectionChanged once, carrying the new index; select of
\* an edit entry fires none and leaves the index alone unless the edit
\* command resets or reloads the document; no other operation fires
\* selectionChanged, whether it changes the index or not.
C38_SelectAnnouncesIndex ==
    [][ /\ \A i \in PickedIndexes :
            (~IsEditEntry(i) /\ select(i)) =>
                /\ currentConfigurationIndex' = i
                /\ \E k \in 1..Len(fired') : SelectionEvents(fired') = { k } /\ fired'[k].index = i
        /\ \A i \in PickedIndexes :
            (IsEditEntry(i) /\ select(i)) =>
                /\ SelectionEvents(fired') = {}
                /\ (loads' = << >> /\ propertiesFile = "uri" /\ fsExistsSync(file))
                       => currentConfigurationIndex' = currentConfigurationIndex
        /\ SelectionEvents(fired') # {} =>
               \E i \in PickedIndexes : ~IsEditEntry(i) /\ select(i) ]_vars

\* the second configuration was selected, announced with its index
C38_Witness ==
    /\ IsSome(configurationJson)
    /\ Len(Configurations(M)) = 2
    /\ currentConfigurationIndex = 1
    /\ \E k \in SelectionEvents(fired) : fired[k].index = 1


\* the configurations of the text the callback parses
LiveBlocks == document.blocks

\* C39: when the callback of the diagnostics pass has run on a text that
\* parses, the current index is an index into the configurations of that text
\* and the configuration there has the name of the current configuration held
\* in memory.
C39_CallbackIndexFitsLiveText ==
    (IsSome(squigglePass) /\ document.wellFormed /\ CurrentConfigurationExists(M)) =>
        /\ IndexInRange(currentConfigurationIndex, LiveBlocks)
        /\ ScalarOf(At(LiveBlocks, currentConfigurationIndex), "name")
               = At(Configurations(M), currentConfigurationIndex).name

====
